---- MODULE Spec2Model ----
(***************************************************************************)
(* Model of the text-to-speech worker (tts.worker.js): one 'generate'      *)
(* request travelling through self.onmessage, TextToSpeechWorker.call and  *)
(* TextToSpeechWorker._infer, with the inference engine as an opaque       *)
(* request/response collaborator that may fail.                            *)
(*                                                                         *)
(* JavaScript runs each stretch of code between two awaits atomically, so  *)
(* every action is one such stretch: it starts when a promise settles and  *)
(* ends at the next await (or at the end of the handler).                  *)
(***************************************************************************)
EXTENDS Integers, Sequences, FiniteSets, TLC

(***************************************************************************)
(* Bounds of the model.                                                    *)
(***************************************************************************)
MaxSteps == 2
\* at most this many dispose() calls of one finally block throw
MaxThrowing == 1
\* at most this many 'loadStyle' messages reach the worker
MaxLoads == 2
\* the longest text chunkText is applied to on its own
MaxChunkTextLen == 6
\* the longest text preprocessText is applied to on its own
MaxNormLen == 4
\* the longest text of a batch UnicodeProcessor.call is applied to on its own
MaxIndexLen == 2
\* the most samples writeWavFile is applied to on its own
MaxWavLen == 2
\* at most this many events of the page's controls ('change' of the voice
\* style select, clicks on the generate button)
MaxEvents == 3
\* at most this many messages of a client other than main.js
MaxMessages == 3

(***************************************************************************)
(* Exact rational numbers <<numerator, denominator>> stand for the         *)
(* JavaScript numbers that are not integers (durations, speed, progress).  *)
(***************************************************************************)
RECURSIVE GCD(_, _)
GCD(a, b) == IF b = 0 THEN a ELSE GCD(b, a % b)

Abs(n) == IF n < 0 THEN -n ELSE n

Range(f) == {f[i] : i \in DOMAIN f}

Rat(n, d) ==
    LET g == GCD(Abs(n), Abs(d))
        s == IF d < 0 THEN -1 ELSE 1
    IN  IF n = 0 THEN <<0, 1>> ELSE <<s * (n \div g), s * (d \div g)>>

RatInt(n) == <<n, 1>>
RatAdd(p, q) == Rat(p[1] * q[2] + q[1] * p[2], p[2] * q[2])
RatMul(p, q) == Rat(p[1] * q[1], p[2] * q[2])
RatDiv(p, q) == Rat(p[1] * q[2], p[2] * q[1])
RatLE(p, q)  == p[1] * q[2] <= q[1] * p[2]
RatLT(p, q)  == p[1] * q[2] < q[1] * p[2]
RatEq(p, q)  == p[1] * q[2] = q[1] * p[2]
\* Math.floor of a rational (denominators are positive)
RatFloor(p)  == p[1] \div p[2]

(***************************************************************************)
(* Configuration read from tts.json (cfgs) and request parameters.         *)
(***************************************************************************)
SampleRate    == 4      \* cfgs.ae.sample_rate
BaseChunkSize == 1      \* cfgs.ae.base_chunk_size
ChunkCompress == 2      \* cfgs.ttl.chunk_compress_factor
LatentDim     == 1      \* cfgs.ttl.latent_dim
DefaultMaxLen == 300    \* chunkText(text, maxLen = 300)

\* durations (seconds) the duration predictor may answer with
Durations == {<<5, 8>>, <<1, 1>>}
\* speed values of a request: 1.0 and the default 1.05
Speeds == {<<1, 1>>, <<21, 20>>}
\* silenceDuration of a request: main.js always sends 0.3
SilenceDurations == {<<3, 10>>}
\* The engine's tensors and the random draws are opaque: each is one of a
\* few patterns, elements differing by position. Pattern(k, n) has n elements.
Patterns == {0, 1}
Pattern(k, n) == [i \in 1..n |-> 1 + ((k + i) % 3)]
\* values of one sample of a vocoder answer
WavVals == {1, 2}

\* error messages
NotReadyMsg   == "TTS not initialized or style not loaded"
StyleMsg      == "Single speaker text to speech only supports single style"
NotStringMsg  == "chunkText expects a string"
EngineMsg     == "inference engine failure"
DisposeMsg    == "tensor dispose failure"

(***************************************************************************)
(* Strings are sequences of characters, a character being a one-character  *)
(* string or, for a character outside ASCII, its name.                     *)
(***************************************************************************)
\* \s of a regular expression, String.prototype.trim
Whitespace == {" ", "\n", "\t"}
Upper == {"A", "B", "C", "D", "E", "F", "G", "H", "I", "J", "K", "L", "M",
          "N", "O", "P", "Q", "R", "S", "T", "U", "V", "W", "X", "Y", "Z"}
Lower == {"a", "b", "c", "d", "e", "f", "g", "h", "i", "j", "k", "l", "m",
          "n", "o", "p", "q", "r", "s", "t", "u", "v", "w", "x", "y", "z"}
Digits == {"0", "1", "2", "3", "4", "5", "6", "7", "8", "9"}
\* \w of a regular expression
WordChars == Upper \cup Lower \cup Digits \cup {"_"}

\* pat occurs in text at position i
OccursAt(text, pat, i) ==
    /\ i >= 1
    /\ i + Len(pat) - 1 <= Len(text)
    /\ \A k \in 1..Len(pat) : text[i + k - 1] = pat[k]

EndsWith(text, pat) == OccursAt(text, pat, Len(text) - Len(pat) + 1)

\* String.prototype.includes
Includes(text, pat) == \E i \in 1..Len(text) : OccursAt(text, pat, i)

\* String.prototype.replace with a string pattern: the first occurrence
ReplaceFirst(text, pat, rep) ==
    IF ~Includes(text, pat) THEN text
    ELSE LET i == CHOOSE k \in 1..Len(text) :
                      /\ OccursAt(text, pat, k)
                      /\ \A m \in 1..(k - 1) : ~OccursAt(text, pat, m)
         IN  SubSeq(text, 1, i - 1) \o rep \o SubSeq(text, i + Len(pat), Len(text))

\* String.prototype.replaceAll: the occurrences from left to right, not overlapping
RECURSIVE ReplaceAllFrom(_, _, _, _)
ReplaceAllFrom(text, pat, rep, i) ==
    IF i > Len(text) THEN <<>>
    ELSE IF OccursAt(text, pat, i)
    THEN rep \o ReplaceAllFrom(text, pat, rep, i + Len(pat))
    ELSE <<text[i]>> \o ReplaceAllFrom(text, pat, rep, i + 1)

ReplaceAll(text, pat, rep) == ReplaceAllFrom(text, pat, rep, 1)

\* for (const [k, v] of table) text = text.replaceAll(k, v)
RECURSIVE ApplyReplacements(_, _, _)
ApplyReplacements(text, table, k) ==
    IF k > Len(table) THEN text
    ELSE ApplyReplacements(ReplaceAll(text, table[k][1], table[k][2]), table, k + 1)

\* text.replace(/[...]+/g, '') and text.replace(/[...]/g, '')
RemoveChars(text, class) == SelectSeq(text, LAMBDA c : c \notin class)

\* String.prototype.trim
Trim(text) ==
    LET inked == {i \in 1..Len(text) : text[i] \notin Whitespace} IN
    IF inked = {} THEN <<>>
    ELSE SubSeq(text, CHOOSE i \in inked : \A k \in inked : i <= k,
                      CHOOSE i \in inked : \A k \in inked : i >= k)

\* the end of the run of whitespace that starts at i
RECURSIVE RunEnd(_, _)
RunEnd(text, i) ==
    IF i < Len(text) /\ text[i + 1] \in Whitespace THEN RunEnd(text, i + 1) ELSE i

(***************************************************************************)
(* chunkText.                                                              *)
(***************************************************************************)
\* A text is a string or some other value.
NotAString == [isString |-> FALSE, chars |-> <<>>]
Str(chars) == [isString |-> TRUE, chars |-> chars]

\* text.split(/\n\s*\n+/): a separator starts at a newline and runs to the
\* last newline of the whitespace that follows it
RECURSIVE SplitParagraphsFrom(_, _, _, _)
SplitParagraphsFrom(text, i, start, acc) ==
    IF i > Len(text) THEN Append(acc, SubSeq(text, start, Len(text)))
    ELSE LET later == {k \in (i + 1)..RunEnd(text, i) : text[k] = "\n"} IN
         IF text[i] = "\n" /\ later # {}
         THEN LET last == CHOOSE k \in later : \A m \in later : m <= k IN
              SplitParagraphsFrom(text, last + 1, last + 1,
                                  Append(acc, SubSeq(text, start, i - 1)))
         ELSE SplitParagraphsFrom(text, i + 1, start, acc)

SplitParagraphs(text) == SplitParagraphsFrom(text, 1, 1, <<>>)

\* the abbreviations of the negative lookbehinds of SENTENCE_SPLIT_PATTERN
Abbreviations ==
    { <<"M", "r", ".">>, <<"M", "r", "s", ".">>, <<"M", "s", ".">>,
      <<"D", "r", ".">>, <<"P", "r", "o", "f", ".">>, <<"S", "r", ".">>,
      <<"J", "r", ".">>, <<"P", "h", ".", "D", ".">>, <<"e", "t", "c", ".">>,
      <<"e", ".", "g", ".">>, <<"i", ".", "e", ".">>, <<"v", "s", ".">>,
      <<"I", "n", "c", ".">>, <<"L", "t", "d", ".">>, <<"C", "o", ".">>,
      <<"C", "o", "r", "p", ".">>, <<"S", "t", ".">>, <<"A", "v", "e", ".">>,
      <<"B", "l", "v", "d", ".">> }

\* SENTENCE_SPLIT_PATTERN matches at i: whitespace that follows . ! or ?,
\* not after an abbreviation and not after a capital initial (\b[A-Z]\.)
SentenceBreakAt(text, i) ==
    /\ i > 1
    /\ text[i] \in Whitespace
    /\ text[i - 1] \in {".", "!", "?"}
    /\ \A a \in Abbreviations : ~EndsWith(SubSeq(text, 1, i - 1), a)
    /\ ~(/\ i > 2
         /\ text[i - 1] = "."
         /\ text[i - 2] \in Upper
         /\ (i = 3 \/ text[i - 3] \notin WordChars))

\* paragraph.split(SENTENCE_SPLIT_PATTERN)
RECURSIVE SplitSentencesFrom(_, _, _, _)
SplitSentencesFrom(text, i, start, acc) ==
    IF i > Len(text) THEN Append(acc, SubSeq(text, start, Len(text)))
    ELSE IF SentenceBreakAt(text, i)
    THEN SplitSentencesFrom(text, RunEnd(text, i) + 1, RunEnd(text, i) + 1,
                            Append(acc, SubSeq(text, start, i - 1)))
    ELSE SplitSentencesFrom(text, i + 1, start, acc)

SplitSentences(paragraph) == SplitSentencesFrom(paragraph, 1, 1, <<>>)

\* currentChunk.length + sentence.length + 1 <= maxLen
SentenceFitsWithoutSpace(currentChunk, sentence, maxLen) ==
    Len(currentChunk) + Len(sentence) <= maxLen

SentenceFits(currentChunk, sentence, maxLen) ==
    Len(currentChunk) + Len(sentence) + 1 <= maxLen

\* currentChunk += (currentChunk ? " " : "") + sentence
JoinSentenceReplacing(currentChunk, sentence) == sentence

JoinSentence(currentChunk, sentence) ==
    currentChunk \o (IF currentChunk # <<>> THEN <<" ">> ELSE <<>>) \o sentence

\* the loop over the sentences of one paragraph, and the push after it
RECURSIVE AccumulateSentences(_, _, _, _, _)
AccumulateSentences(sentences, i, currentChunk, chunks, maxLen) ==
    IF i > Len(sentences)
    THEN IF currentChunk # <<>> THEN Append(chunks, Trim(currentChunk)) ELSE chunks
    ELSE LET sentence == sentences[i] IN
         IF SentenceFits(currentChunk, sentence, maxLen)
         THEN AccumulateSentences(sentences, i + 1, JoinSentence(currentChunk, sentence),
                                  chunks, maxLen)
         ELSE AccumulateSentences(sentences, i + 1, sentence,
                  IF currentChunk # <<>> THEN Append(chunks, Trim(currentChunk)) ELSE chunks,
                  maxLen)

\* the loop over the paragraphs
RECURSIVE ChunkParagraphs(_, _, _, _)
ChunkParagraphs(paras, p, chunks, maxLen) ==
    IF p > Len(paras) THEN chunks
    ELSE IF Trim(paras[p]) = <<>> THEN ChunkParagraphs(paras, p + 1, chunks, maxLen)
    ELSE ChunkParagraphs(paras, p + 1,
             AccumulateSentences(SplitSentences(Trim(paras[p])), 1, <<>>, chunks, maxLen),
             maxLen)

\* the paragraphs of a string: text.trim().split(/\n\s*\n+/).filter(p => p.trim())
Paragraphs(chars) ==
    SelectSeq(SplitParagraphs(Trim(chars)), LAMBDA p : Trim(p) # <<>>)

\* the chunks of a string (the caller has checked typeof text)
ChunkText(text, maxLen) == ChunkParagraphs(Paragraphs(text.chars), 1, <<>>, maxLen)

\* the texts of the requests
Texts ==
    { NotAString,
      Str(<<>>),
      Str(<<"H", "i", " ", "A", ".", " ", "B", ".", " ", "O", "k", "?">>),
      Str(<<"a", "@", "b", "\n", "\n", "N", "o", "!">>),
      Str(<<"O", "n", "e", ".", "\n", " ", "\n", "T", "w", "o", ".", " ", "x", "\n", "\n", "E", "n", "d">>) }

(***************************************************************************)
(* UnicodeProcessor.preprocessText. A character outside ASCII, and the     *)
(* grave accent, is written as its code point: "U+00E9", "U+0060".         *)
(***************************************************************************)
\* String.prototype.normalize('NFKD') of one character: the characters of the
\* tables and patterns below that have a decomposition, and two accented letters
Decompose(c) ==
    CASE c = "U+00E9" -> <<"e", "U+0301">>         \* e acute
      [] c = "U+00EA" -> <<"e", "U+0302">>         \* e circumflex
      [] c = "U+00AF" -> <<" ", "U+0304">>         \* macron
      [] c = "U+00B4" -> <<" ", "U+0301">>         \* acute accent
      [] c = "U+2011" -> <<"U+2010">>              \* non-breaking hyphen
      [] c = "U+2026" -> <<".", ".", ".">>         \* horizontal ellipsis
      [] c = "U+00A0" -> <<" ">>                   \* no-break space
      [] OTHER -> <<c>>

RECURSIVE NFKD(_)
NFKD(text) == IF text = <<>> THEN <<>> ELSE Decompose(Head(text)) \o NFKD(Tail(text))

\* members of EMOJI_PATTERN: grinning face, sun, black heart suit, white star,
\* white heart suit, sparkles
Emoji == {"U+1F600", "U+2600", "U+2665", "U+2606", "U+2661", "U+2728"}

\* Object.entries(CHAR_REPLACEMENTS): the key '"' is written twice and keeps
\* its first place
CharReplacements ==
    << <<<<"U+2013">>, <<"-">>>>, <<<<"U+2011">>, <<"-">>>>, <<<<"U+2014">>, <<"-">>>>,
       <<<<"U+00AF">>, <<" ">>>>, <<<<"_">>, <<" ">>>>, <<<<"\"">>, <<"\"">>>>,
       <<<<"U+2018">>, <<"'">>>>, <<<<"U+2019">>, <<"'">>>>, <<<<"U+00B4">>, <<"'">>>>,
       <<<<"U+0060">>, <<"'">>>>, <<<<"[">>, <<" ">>>>, <<<<"]">>, <<" ">>>>,
       <<<<"|">>, <<" ">>>>, <<<<"/">>, <<" ">>>>, <<<<"#">>, <<" ">>>>,
       <<<<"U+2192">>, <<" ">>>>, <<<<"U+2190">>, <<" ">>>> >>

\* DIACRITICS_PATTERN
Diacritics ==
    {"U+0302", "U+0303", "U+0304", "U+0305", "U+0306", "U+0307", "U+0308",
     "U+030A", "U+030B", "U+030C", "U+0327", "U+0328", "U+0329", "U+032A",
     "U+032B", "U+032C", "U+032D", "U+032E", "U+032F"}

\* SPECIAL_SYMBOLS_PATTERN
SpecialSymbols == {"U+2665", "U+2606", "U+2661", "U+00A9", "\\"}

\* Object.entries(EXPR_REPLACEMENTS)
ExprReplacements ==
    << <<<<"@">>, <<" ", "a", "t", " ">>>>,
       <<<<"e", ".", "g", ".", ",">>,
         <<"f", "o", "r", " ", "e", "x", "a", "m", "p", "l", "e", ",", " ">>>>,
       <<<<"i", ".", "e", ".", ",">>,
         <<"t", "h", "a", "t", " ", "i", "s", ",", " ">>>> >>

\* the class of SPACING_PUNCTUATION_PATTERN
SpacedPunctuation == {",", ".", "!", "?", ";", ":", "'"}

\* text.replace(SPACING_PUNCTUATION_PATTERN, '$1'): one pass from left to
\* right over the matches, which do not overlap
RECURSIVE CloseUpPunctuationFrom(_, _)
CloseUpPunctuationFrom(text, i) ==
    IF i > Len(text) THEN <<>>
    ELSE IF text[i] = " " /\ i < Len(text) /\ text[i + 1] \in SpacedPunctuation
    THEN <<text[i + 1]>> \o CloseUpPunctuationFrom(text, i + 2)
    ELSE <<text[i]>> \o CloseUpPunctuationFrom(text, i + 1)

CloseUpPunctuation(text) == CloseUpPunctuationFrom(text, 1)

\* DUPLICATE_QUOTES
DuplicateQuotes ==
    << <<<<"\"", "\"">>, <<"\"">>>>, <<<<"'", "'">>, <<"'">>>>, <<<<"U+0060", "U+0060">>, <<"U+0060">>>> >>

\* while (text.includes(pattern)) text = text.replace(pattern, replacement)
RECURSIVE ReplaceWhileIncluded(_, _, _)
ReplaceWhileIncluded(text, pat, rep) ==
    IF Includes(text, pat)
    THEN ReplaceWhileIncluded(ReplaceFirst(text, pat, rep), pat, rep)
    ELSE text

\* for (const [pattern, replacement] of DUPLICATE_QUOTES) ...
RECURSIVE CollapseQuotes(_, _)
CollapseQuotes(text, k) ==
    IF k > Len(DuplicateQuotes) THEN text
    ELSE CollapseQuotes(ReplaceWhileIncluded(text, DuplicateQuotes[k][1], DuplicateQuotes[k][2]),
                        k + 1)

\* text.replace(MULTIPLE_SPACES_PATTERN, ' '): every run of whitespace
\* becomes one space
RECURSIVE CollapseSpacesFrom(_, _)
CollapseSpacesFrom(text, i) ==
    IF i > Len(text) THEN <<>>
    ELSE IF text[i] \in Whitespace
    THEN <<" ">> \o CollapseSpacesFrom(text, RunEnd(text, i) + 1)
    ELSE <<text[i]>> \o CollapseSpacesFrom(text, i + 1)

CollapseSpaces(text) == CollapseSpacesFrom(text, 1)

\* the class of ENDING_PUNCTUATION_PATTERN
EndingPunctuation ==
    {".", "!", "?", ";", ":", ",", "'", "\"", ")", "]", "}", "U+2026", "U+3002",
     "U+300D", "U+300F", "U+3011", "U+3009", "U+300B", "U+203A", "U+00BB"}

EndSentenceAlways(text) == Append(text, ".")

\* if (!ENDING_PUNCTUATION_PATTERN.test(text)) text += '.'
EndSentence(text) ==
    IF text # <<>> /\ text[Len(text)] \in EndingPunctuation THEN text ELSE Append(text, ".")

\* preprocessText up to the trim of line 75
BeforeEnding(text) ==
    LET t1 == NFKD(text)
        t2 == RemoveChars(t1, Emoji)
        t3 == ApplyReplacements(t2, CharReplacements, 1)
        t4 == RemoveChars(t3, Diacritics)
        t5 == RemoveChars(t4, SpecialSymbols)
        t6 == ApplyReplacements(t5, ExprReplacements, 1)
        t7 == CloseUpPunctuation(t6)
        t8 == CollapseQuotes(t7, 1)
    IN  Trim(CollapseSpaces(t8))

\* UnicodeProcessor.preprocessText
PreprocessText(text) == EndSentence(BeforeEnding(text))

(***************************************************************************)
(* UnicodeProcessor.call. A JavaScript string is a sequence of UTF-16 code *)
(* units: text.length counts units and codePointAt(j) reads the code point *)
(* that starts at unit j, so a character outside the basic plane takes two *)
(* units. The texts of the model are sequences of characters; Utf16 gives  *)
(* the units the code indexes.                                             *)
(***************************************************************************)
\* the code point of a character of the model's texts
CodePointOf(c) ==
    CASE c = " "  -> 32
      [] c = "'"  -> 39
      [] c = "."  -> 46
      [] c = "a"  -> 97
      [] c = "t"  -> 116
      [] c = "U+20000" -> 131072

\* the UTF-16 encoding of one code point: itself, or a surrogate pair
Utf16Units(cp) ==
    IF cp < 65536
    THEN <<cp>>
    ELSE <<55296 + ((cp - 65536) \div 1024), 56320 + ((cp - 65536) % 1024)>>

RECURSIVE Utf16(_)
Utf16(text) ==
    IF text = <<>> THEN <<>> ELSE Utf16Units(CodePointOf(Head(text))) \o Utf16(Tail(text))

\* String.prototype.codePointAt for the unit at position j (from 1): the
\* pair's code point at a high surrogate followed by a low one, else the unit
CodePointAt(units, j) ==
    IF /\ units[j] \in 55296..56319
       /\ j < Len(units)
       /\ units[j + 1] \in 56320..57343
    THEN 65536 + (units[j] - 55296) * 1024 + (units[j + 1] - 56320)
    ELSE units[j]

\* unicode_indexer.json: an array of ids indexed by code point; supported
\* holds the entries that are ids, every other entry of the array is -1
IndexerTable(length) ==
    [length |-> length, supported |-> (32 :> 1) @@ (46 :> 2) @@ (97 :> 3)]

\* this.indexer[codePoint]
IndexerAt(indexer, codePoint) ==
    IF codePoint \in DOMAIN indexer.supported THEN indexer.supported[codePoint] ELSE -1

\* (codePoint < this.indexer.length) ? this.indexer[codePoint] : -1
TextId(indexer, codePoint) ==
    IF codePoint < indexer.length THEN IndexerAt(indexer, codePoint) ELSE -1

\* lengthToMask for one row
MaskRow(len, maxLen) ==
    [j \in 1..maxLen |-> IF j <= (IF len < maxLen THEN len ELSE maxLen) THEN 1 ELSE 0]

\* Math.max(...lengths) of a batch that is not empty
MaxOf(lengths) ==
    CHOOSE m \in Range(lengths) : \A n \in Range(lengths) : n <= m

LengthToMaskAllValid(lengths, maxLen) ==
    LET actualMaxLen == IF maxLen # 0 THEN maxLen ELSE MaxOf(lengths)
    IN  [b \in DOMAIN lengths |-> << [j \in 1..actualMaxLen |-> 1] >>]

\* lengthToMask(lengths, maxLen): maxLen || Math.max(...lengths), and one
\* [row] for each length
LengthToMask(lengths, maxLen) ==
    LET actualMaxLen == IF maxLen # 0 THEN maxLen ELSE MaxOf(lengths)
    IN  [b \in DOMAIN lengths |-> << MaskRow(lengths[b], actualMaxLen) >>]

\* UnicodeProcessor.call(textList)
TextProcessorCall(indexer, textList) ==
    LET processedTexts == [b \in DOMAIN textList |-> Utf16(PreprocessText(textList[b]))]
        textIdsLengths == [b \in DOMAIN textList |-> Len(processedTexts[b])]
        maxLen         == MaxOf(textIdsLengths)
        textIds        ==
            [b \in DOMAIN textList |->
                [j \in 1..maxLen |->
                    IF j <= textIdsLengths[b]
                    THEN TextId(indexer, CodePointAt(processedTexts[b], j))
                    ELSE 0]]
    IN  [textIds |-> textIds,
         textMask |-> LengthToMask(textIdsLengths, MaxOf(textIdsLengths))]

(***************************************************************************)
(* Latent tensors: xt[b][d][t] nested, xtFlat row-major.                   *)
(***************************************************************************)
\* the copy loops xtFlat[idx++] = xt[b][d][t]
Flatten(x, bsz, dim, len) ==
    [i \in 1..(bsz * dim * len) |->
        LET k == i - 1
            b == k \div (dim * len)
            d == (k % (dim * len)) \div len
            t == k % len
        IN  x[b + 1][d + 1][t + 1]]

\* the copy loops xt[b][d][t] = denoised[reshapeIdx++]
UpdateLatentAdditive(x, denoised, bsz, dim, len) ==
    [b \in 1..bsz |-> [d \in 1..dim |-> [t \in 1..len |->
        x[b][d][t] + denoised[(b - 1) * dim * len + (d - 1) * len + t]]]]

UpdateLatent(x, denoised, bsz, dim, len) ==
    [b \in 1..bsz |-> [d \in 1..dim |-> [t \in 1..len |->
        denoised[(b - 1) * dim * len + (d - 1) * len + t]]]]

\* Math.floor((len + chunkSize - 1) / chunkSize)
LatentLenOf(wavLen) ==
    (wavLen + BaseChunkSize * ChunkCompress - 1) \div (BaseChunkSize * ChunkCompress)

\* floor(d * sampleRate)
WavLenOf(dur) == RatFloor(RatMul(dur, RatInt(SampleRate)))

\* sampleNoisyLatent for the one-item batch _infer is called with: noise is
\* the Box-Muller draw of every element, then multiplied by the mask
SampleNoisyLatent(dur, noise) ==
    LET latentLen == LatentLenOf(WavLenOf(dur))
        dimVal    == LatentDim * ChunkCompress
        mask      == MaskRow(LatentLenOf(WavLenOf(dur)), latentLen)
    IN  [xt |-> << [d \in 1..dimVal |-> [t \in 1..latentLen |-> noise[d][t] * mask[t]]] >>,
         latentMask |-> << <<mask>> >>]

\* the draws of one call, one per element
NoiseDraws(dur) ==
    LET dimVal == LatentDim * ChunkCompress
        len    == LatentLenOf(WavLenOf(dur))
    IN  {[d \in 1..dimVal |-> [t \in 1..len |-> Pattern(k, dimVal * len)[(t - 1) * dimVal + d]]] :
            k \in Patterns}

\* sampleNoisyLatent for a batch of durations: noise[b][d][t] is the
\* Box-Muller draw of the element, multiplied by the mask in the last loop
SampleNoisyLatentBatch(duration, sampleRate, baseChunkSize, chunkCompress, latentDim, noise) ==
    LET bsz            == Len(duration)
        maxDur         == CHOOSE m \in Range(duration) :
                              \A d \in Range(duration) : RatLE(d, m)
        wavLenMax      == RatFloor(RatMul(maxDur, RatInt(sampleRate)))
        wavLengths     == [b \in 1..bsz |-> RatFloor(RatMul(duration[b], RatInt(sampleRate)))]
        chunkSize      == baseChunkSize * chunkCompress
        latentLen      == (wavLenMax + chunkSize - 1) \div chunkSize
        latentDimVal   == latentDim * chunkCompress
        latentLengths  == [b \in 1..bsz |-> (wavLengths[b] + chunkSize - 1) \div chunkSize]
        latentMask     == LengthToMask(latentLengths, latentLen)
    IN  [xt |-> [b \in 1..bsz |-> [d \in 1..latentDimVal |-> [t \in 1..latentLen |->
                    noise[b][d][t] * latentMask[b][1][t]]]],
         latentMask |-> latentMask]

(***************************************************************************)
(* writeWavFile: the ArrayBuffer is a sequence of bytes, the byte at       *)
(* offset o being element o + 1.                                           *)
(***************************************************************************)
\* view.setUint16(offset, v, true) and view.setUint32(offset, v, true):
\* the low 16 or 32 bits of the value, least significant byte first (every
\* 32-bit field of the model is below 2^31)
Uint16LE(v) == <<(v % 65536) % 256, (v % 65536) \div 256>>
Uint32LE(v) == <<v % 256, (v \div 256) % 256, (v \div 65536) % 256, (v \div 16777216) % 256>>

\* writeString(offset, string): string.charCodeAt(i) of each character
CharCodes(string) ==
    [i \in DOMAIN string |->
        CASE string[i] = "R" -> 82 [] string[i] = "I" -> 73 [] string[i] = "F" -> 70
          [] string[i] = "W" -> 87 [] string[i] = "A" -> 65 [] string[i] = "V" -> 86
          [] string[i] = "E" -> 69 [] string[i] = "f" -> 102 [] string[i] = "m" -> 109
          [] string[i] = "t" -> 116 [] string[i] = " " -> 32 [] string[i] = "d" -> 100
          [] string[i] = "a" -> 97]

\* Math.max(-1.0, Math.min(1.0, x))
Clamp(x) ==
    LET low == IF RatLT(<<1, 1>>, x) THEN <<1, 1>> ELSE x
    IN  IF RatLT(low, <<-1, 1>>) THEN <<-1, 1>> ELSE low

\* the store into an Int16Array: the integer modulo 2^16, as a signed value
Int16(v) == LET w == v % 65536 IN IF w >= 32768 THEN w - 65536 ELSE w

Int16SampleUnclamped(x) == Int16(RatFloor(RatMul(x, RatInt(32767))))

\* int16Data[i] = Math.floor(clamped * 32767)
Int16Sample(x) == Int16(RatFloor(RatMul(Clamp(x), RatInt(32767))))

\* new Uint8Array(int16Data.buffer): the two bytes of each element, least
\* significant first (the byte order of every platform that runs WebAssembly)
RECURSIVE Int16Bytes(_)
Int16Bytes(int16Data) ==
    IF int16Data = <<>>
    THEN <<>>
    ELSE Uint16LE(Head(int16Data)) \o Int16Bytes(Tail(int16Data))

\* writeWavFile(audioData, sampleRate)
WriteWavFile(audioData, sampleRate) ==
    LET numChannels   == 1
        bitsPerSample == 16
        byteRate      == (sampleRate * numChannels * bitsPerSample) \div 8
        blockAlign    == (numChannels * bitsPerSample) \div 8
        dataSize      == Len(audioData) * 2
        int16Data     == [i \in DOMAIN audioData |-> Int16Sample(audioData[i])]
    IN  CharCodes(<<"R", "I", "F", "F">>) \o Uint32LE(36 + dataSize)
        \o CharCodes(<<"W", "A", "V", "E">>) \o CharCodes(<<"f", "m", "t", " ">>)
        \o Uint32LE(16) \o Uint16LE(1) \o Uint16LE(numChannels)
        \o Uint32LE(sampleRate) \o Uint32LE(byteRate) \o Uint16LE(blockAlign)
        \o Uint16LE(bitsPerSample) \o CharCodes(<<"d", "a", "t", "a">>)
        \o Uint32LE(dataSize) \o Int16Bytes(int16Data)

(***************************************************************************)
(* Progress arithmetic of the callback TextToSpeechWorker.call hands to    *)
(* _infer.                                                                 *)
(***************************************************************************)
OverallProgressOneBased(step, total, processed, totalChunks) ==
    RatAdd(Rat(processed + 1, totalChunks),
           RatDiv(Rat(step, total), RatInt(totalChunks)))

OverallProgressNoScale(step, total, processed, totalChunks) ==
    RatAdd(Rat(processed, totalChunks), Rat(step, total))

OverallProgress(step, total, processed, totalChunks) ==
    LET chunkProgress == Rat(processed, totalChunks)
        stepProgress  == RatDiv(Rat(step, total), RatInt(totalChunks))
    IN  RatAdd(chunkProgress, stepProgress)

(***************************************************************************)
(* State.                                                                  *)
(***************************************************************************)
VARIABLES
    textToSpeech,       \* worker global: TRUE when the TTS instance exists
    currentStyle,       \* worker global: [loaded, ttlDim0, id], NoStyle for null
    initPc,             \* where the handler of the 'init' message is suspended
    loads,              \* where the handler of each 'loadStyle' message is suspended
    req,                \* payload of the 'generate' message
    atStart,            \* what had completed when 'generate' was handled
    pc,                 \* where the handler of the request is suspended
    error,              \* the exception travelling up, "" when none
    style,              \* call: the style argument
    textList,           \* call: chunks returned by chunkText
    chunkPos,           \* call: position of the for-of loop in textList
    processedChunks,    \* call: processedChunks
    wavCat,             \* call: [isNull, data]
    durCat,             \* call: durCat
    results,            \* what _infer returned for each chunk so far
    processedText,      \* _infer: processedTexts[0] of UnicodeProcessor.call
    duration,           \* _infer: duration[0] after division by speed
    xt,                 \* _infer: xt[b][d][t]
    step,               \* _infer: loop variable of the denoising loop
    tensorsToDispose,   \* _infer: tensorsToDispose
    inferResult,        \* _infer: the value it returned
    inflight,           \* engine: run() calls issued and not yet settled
    created,            \* tensors the current _infer has constructed
    disposed,           \* tensors of the current _infer that are released
    sampled,            \* what sampleNoisyLatent returned in the current _infer
    lastDenoised,       \* denoised_latent.data of the latest estimator answer
    inferStatus,        \* "none", "running", "returned" or "threw"
    threwOn,            \* tensors of the current _infer whose dispose() threw
    generated,          \* payload of the 'generated' message: [sent, wav, duration]
    log,                \* everything observable of the request, in order
    fnPc,               \* a function applied on its own: what has been applied
    textIn,             \* its text argument
    maxLenIn,           \* its maxLen argument
    textOut,            \* its result when that is text
    fnArgs,             \* its arguments when it takes no text
    fnResult,           \* its result when that is not text
    cfgs,               \* worker global: TRUE when tts.json has been read
    handlers,           \* worker: the onmessage call of each message id received
    posted,             \* worker: for each id, the types of the messages posted with it
    toWorker,           \* messages the page posted that the worker has not received
    toMain,             \* messages the worker posted that the page has not received
    ttsWorker,          \* page: TRUE when the Worker exists
    workerMessageId,    \* page: workerMessageId
    workerCallbacks,    \* page: for each id with an entry, the await that holds the
                        \* promise its callbacks settle
    settled,            \* page: for each id, how often resolve or reject was called
    currentStylePath,   \* page: currentStylePath
    generateBtnDisabled, \* page: generateBtn.disabled
    progressHidden,     \* page: progressContainer has the class 'hidden'
    events              \* page: events of its controls so far

vars == <<textToSpeech, currentStyle, initPc, loads, req, atStart, pc, error,
          style, textList, chunkPos, processedChunks, wavCat, durCat, results,
          processedText, duration, xt, step, tensorsToDispose, inferResult,
          inflight, created, disposed, sampled, lastDenoised, inferStatus,
          threwOn, generated, log, fnPc, textIn, maxLenIn, textOut, fnArgs,
          fnResult, cfgs, handlers, posted, toWorker, toMain, ttsWorker,
          workerMessageId, workerCallbacks, settled, currentStylePath,
          generateBtnDisabled, progressHidden, events>>

workerVars == <<textToSpeech, currentStyle, initPc, loads, req>>
callVars   == <<style, textList, chunkPos, processedChunks, wavCat, durCat, results>>
latentVars == <<processedText, duration, xt, step, sampled, lastDenoised>>
tensorVars == <<tensorsToDispose, created, disposed, threwOn>>
fnVars     == <<fnPc, textIn, maxLenIn, textOut, fnArgs, fnResult>>
channelVars == <<cfgs, handlers, posted, toWorker, toMain>>
pageVars   == <<ttsWorker, workerMessageId, workerCallbacks, settled,
                currentStylePath, generateBtnDisabled, progressHidden, events>>
messageVars == <<channelVars, pageVars>>
\* everything of the handler of the 'generate' request
requestVars == <<atStart, pc, error, callVars, latentVars, tensorVars,
                 inferResult, inflight, inferStatus, generated, log>>

\* a tensor constructed by _infer: its role and the step it belongs to
Tensor(kind, s) == <<kind, s>>

\* one observable event
Ev(ev, op, chunk, s, total, chunks, val, msg) ==
    [ev |-> ev, op |-> op, chunk |-> chunk, step |-> s, total |-> total,
     chunks |-> chunks, val |-> val, msg |-> msg]

CallEv(op, chunk, s, total) == Ev("call", op, chunk, s, total, 0, <<0, 1>>, "")
RetEv(op, chunk, s)         == Ev("ret", op, chunk, s, 0, 0, <<0, 1>>, "")
FailEv(op, chunk, s)        == Ev("fail", op, chunk, s, 0, 0, <<0, 1>>, EngineMsg)
PostEv(type, msg)           == Ev("post", type, 0, 0, 0, 0, <<0, 1>>, msg)
\* a stage of _infer that runs without an await
SyncEv(op, chunk)           == Ev("sync", op, chunk, 0, 0, 0, <<0, 1>>, "")

\* one run() call on a session; st is the style whose tensors it is given
Request(op, chunk, s, total, latent, st) ==
    [op |-> op, chunk |-> chunk, step |-> s, total |-> total, latent |-> latent,
     style |-> st]

\* let currentStyle = null
NoStyle == [loaded |-> FALSE, ttlDim0 |-> 0, id |-> 0]
\* the object loadVoiceStyle returns: style_ttl.dims[0] of the file, and which
\* 'loadStyle' message made it
LoadedStyle(dim0, k) == [loaded |-> TRUE, ttlDim0 |-> dim0, id |-> k]
\* style_ttl.dims[0] of a style file
StyleDims == 1..2

\* no 'generate' message has been handled
IdleRequest ==
    /\ atStart = [handled |-> FALSE, initDone |-> FALSE, styleDone |-> FALSE]
    /\ pc = "idle"
    /\ error = ""
    /\ style = NoStyle
    /\ textList = <<>>
    /\ chunkPos = 0
    /\ processedChunks = 0
    /\ wavCat = [isNull |-> TRUE, data |-> <<>>]
    /\ durCat = <<0, 1>>
    /\ results = <<>>
    /\ processedText = <<>>
    /\ duration = <<0, 1>>
    /\ xt = <<>>
    /\ step = 0
    /\ tensorsToDispose = <<>>
    /\ inferResult = [wav |-> <<>>, duration |-> <<0, 1>>]
    /\ inflight = {}
    /\ created = {}
    /\ disposed = {}
    /\ sampled = <<>>
    /\ lastDenoised = <<>>
    /\ inferStatus = "none"
    /\ threwOn = {}
    /\ generated = [sent |-> FALSE, wav |-> <<>>, duration |-> <<0, 1>>]
    /\ log = <<>>

\* const DEFAULT_VOICE_STYLE_PATH of main.js
DefaultVoiceStylePath == "assets/voice_styles/M1.json"

\* the worker and the page exchange no message: the worker's globals of the
\* message-level view are unset and the page is as main.js leaves it
NoMessages ==
    /\ cfgs = FALSE
    /\ handlers = <<>>
    /\ posted = <<>>
    /\ toWorker = <<>>
    /\ toMain = <<>>
    /\ ttsWorker = FALSE
    /\ workerMessageId = 0
    /\ workerCallbacks = <<>>
    /\ settled = <<>>
    /\ currentStylePath = DefaultVoiceStylePath
    /\ generateBtnDisabled = TRUE
    /\ progressHidden = TRUE
    /\ events = 0

\* no function is applied on its own
NoFunction ==
    /\ fnPc = "none"
    /\ textIn = <<>>
    /\ maxLenIn = 0
    /\ textOut = <<>>
    /\ fnArgs = <<>>
    /\ fnResult = <<>>

\* the worker as the module leaves it: lines 436-438
FreshWorker ==
    /\ textToSpeech = FALSE
    /\ currentStyle = NoStyle
    /\ initPc = "none"
    /\ loads = [k \in 1..MaxLoads |-> "none"]

\* One 'generate' message reaches a worker that has handled 'init' and
\* 'loadStyle' messages or not.
Init ==
    /\ textToSpeech \in BOOLEAN
    /\ currentStyle \in {NoStyle} \cup {LoadedStyle(d, 1) : d \in StyleDims}
    /\ initPc = IF textToSpeech THEN "done" ELSE "none"
    /\ loads = [k \in 1..MaxLoads |->
                   IF k = 1 /\ currentStyle.loaded THEN "done" ELSE "none"]
    /\ req \in [text : Texts, totalStep : 0..MaxSteps, speed : Speeds,
                silenceDuration : SilenceDurations]
    /\ IdleRequest
    /\ NoMessages
    /\ NoFunction

(***************************************************************************)
(* Pieces of _infer shared by the actions.                                 *)
(***************************************************************************)
\* the guard of case 'generate': !textToSpeech || !currentStyle throws
ReadyWithoutStyle(tts, st) == tts

Ready(tts, st) == tts /\ st.loaded

\* call: style.ttl.dims[0] !== 1 throws
StyleOkUnchecked(st) == TRUE

StyleOk(st) == st.ttlDim0 = 1

\* the style whose tensors a run() call is given: style.dp, style.ttl of the
\* argument of call, whatever the worker's currentStyle is by then
StyleUsedCurrent(passed, current) == current.id

StyleUsed(passed, current) == passed.id

\* chunkText: typeof text !== 'string' throws
IsString(text) == text.isString

\* the condition of the denoising loop
LoopContinuesInclusive(s, total) == s <= total

LoopContinues(s, total) == s < total

\* the for-of loop over textList
IterNextSkipping(pos) == pos + 2

IterNext(pos) == pos + 1

\* what one iteration of the denoising loop does up to its await: the
\* progress callback, then the estimator call
StepLogCallFirst(pos, s, total) ==
    << CallEv("est", pos, s, total),
       Ev("progress", "", processedChunks + 1, s + 1, total, Len(textList),
          OverallProgress(s + 1, total, processedChunks, Len(textList)), "") >>

StepLog(pos, s, total) ==
    << Ev("progress", "", processedChunks + 1, s + 1, total, Len(textList),
          OverallProgress(s + 1, total, processedChunks, Len(textList)), ""),
       CallEv("est", pos, s, total) >>

\* the text is indexed (textProcessor.call), then the duration predictor is called
IndexLog(pos) == <<SyncEv("index", pos), CallEv("dp", pos, 0, 0)>>

\* the text encoder has answered, then the latent is sampled
AfterEncoderLogSampleFirst(pos) == <<SyncEv("sample", pos), RetEv("enc", pos, 0)>>

AfterEncoderLog(pos) == <<RetEv("enc", pos, 0), SyncEv("sample", pos)>>

\* _infer([chunk], st, ...) from its first line to the await of the duration
\* predictor
InferStart(pos, chunk, st, lg, fl) ==
    /\ pc' = "await_dp"
    /\ processedText' = PreprocessText(chunk)
    /\ step' = 0
    /\ xt' = <<>>
    /\ duration' = <<0, 1>>
    /\ sampled' = <<>>
    /\ lastDenoised' = <<>>
    /\ tensorsToDispose' = <<Tensor("textIds", 0), Tensor("textMask", 0)>>
    /\ created' = {Tensor("textIds", 0), Tensor("textMask", 0)}
    /\ disposed' = {}
    /\ threwOn' = {}
    /\ inferStatus' = "running"
    /\ inflight' = fl \cup {Request("dp", pos, 0, 0, <<>>, StyleUsed(st, currentStyle))}
    /\ log' = lg \o IndexLog(pos)

\* the head of the denoising loop with step s and latent x: either one more
\* iteration up to the await of the estimator, or the code after the loop up
\* to the await of the vocoder
LoopHead(pos, s, x, cr, ds, ttd, thr, lg, fl) ==
    LET dim     == Len(x[1])
        len     == Len(x[1][1])
        flat    == Flatten(x, 1, dim, len)
    IN
    /\ step' = s
    /\ xt' = x
    /\ disposed' = ds
    /\ threwOn' = thr
    /\ IF LoopContinues(s, req.totalStep)
       THEN /\ pc' = "await_est"
            /\ created' = cr \cup {Tensor("currentStep", s), Tensor("xt", s)}
            /\ tensorsToDispose' = ttd
            /\ inflight' = fl \cup {Request("est", pos, s, req.totalStep, flat,
                                             StyleUsed(style, currentStyle))}
            /\ log' = lg \o StepLog(pos, s, req.totalStep)
       ELSE /\ pc' = "await_voc"
            /\ created' = cr \cup {Tensor("finalXt", 0)}
            /\ tensorsToDispose' = Append(ttd, Tensor("finalXt", 0))
            /\ inflight' = fl \cup {Request("voc", pos, 0, 0, flat, NoStyle.id)}
            /\ log' = Append(lg, CallEv("voc", pos, 0, 0))

\* the finally block: dispose() of every listed tensor, a throw swallowed;
\* throwing is the set of tensors whose dispose() throws
Finally(ds, ttd, throwing) == ds \cup (Range(ttd) \ throwing)

\* an exception leaves _infer through the finally block
Throw(msg, ds, ttd, throwing, thr, lg, fl) ==
    /\ pc' = "infer_threw"
    /\ error' = msg
    /\ inferStatus' = "threw"
    /\ disposed' = Finally(ds, ttd, throwing)
    /\ threwOn' = thr \cup throwing
    /\ inflight' = fl
    /\ log' = lg
    /\ UNCHANGED <<tensorsToDispose, created>>

(***************************************************************************)
(* Actions: the stretches of code between awaits.                          *)
(***************************************************************************)
\* self.onmessage, case 'generate', up to its first await: the guard, then
\* TextToSpeechWorker.call up to the first engine call of the first chunk
Generate ==
    /\ pc = "idle"
    /\ atStart' = [handled |-> TRUE, initDone |-> initPc = "done",
                   styleDone |-> \E k \in DOMAIN loads : loads[k] = "done"]
    /\ UNCHANGED <<messageVars, fnVars, workerVars, generated, inferResult>>
    /\ IF ~Ready(textToSpeech, currentStyle)
       THEN /\ pc' = "done"
            /\ error' = NotReadyMsg
            /\ log' = Append(log, PostEv("error", NotReadyMsg))
            /\ UNCHANGED <<callVars, latentVars, tensorVars, inflight, inferStatus>>
       ELSE IF ~StyleOk(currentStyle)
       THEN /\ pc' = "call_threw"
            /\ error' = StyleMsg
            /\ UNCHANGED <<callVars, latentVars, tensorVars, inflight, inferStatus, log>>
       ELSE IF ~IsString(req.text)
       THEN /\ pc' = "call_threw"
            /\ error' = NotStringMsg
            /\ UNCHANGED <<callVars, latentVars, tensorVars, inflight, inferStatus, log>>
       ELSE /\ style' = currentStyle
            /\ textList' = ChunkText(req.text, DefaultMaxLen)
            /\ processedChunks' = 0
            /\ wavCat' = [isNull |-> TRUE, data |-> <<>>]
            /\ durCat' = <<0, 1>>
            /\ results' = <<>>
            /\ error' = ""
            /\ IF Len(textList') = 0
               THEN /\ pc' = "call_returned"
                    /\ chunkPos' = 0
                    /\ UNCHANGED <<latentVars, tensorVars, inflight, inferStatus, log>>
               ELSE /\ chunkPos' = 1
                    /\ InferStart(1, textList'[1], currentStyle, log, inflight)

\* the duration predictor answers d: lines 143-154
DpResolved(d) ==
    /\ pc = "await_dp"
    /\ \E r \in inflight :
          /\ r.op = "dp"
          /\ inflight' = (inflight \ {r}) \cup
                            {Request("enc", chunkPos, 0, 0, <<>>, StyleUsed(style, currentStyle))}
    /\ duration' = RatDiv(d, req.speed)
    /\ pc' = "await_enc"
    /\ log' = log \o <<RetEv("dp", chunkPos, 0), CallEv("enc", chunkPos, 0, 0)>>
    /\ UNCHANGED <<messageVars, fnVars, atStart, workerVars, callVars, error, processedText, xt,
                   step, sampled, lastDenoised, tensorVars, inferResult, inferStatus,
                   generated>>

\* the text encoder answers: lines 155-210 or 155-242 when totalStep is 0
EncResolved(noise) ==
    /\ pc = "await_enc"
    /\ \E r \in inflight :
          /\ r.op = "enc"
          /\ LET sample == SampleNoisyLatent(duration, noise) IN
             /\ sampled' = sample.xt
             /\ LoopHead(chunkPos, 0, sample.xt,
                         created \cup {Tensor("latentMask", 0), Tensor("totalStep", 0)},
                         disposed,
                         tensorsToDispose \o <<Tensor("latentMask", 0), Tensor("totalStep", 0)>>,
                         threwOn,
                         log \o AfterEncoderLog(chunkPos),
                         inflight \ {r})
    /\ UNCHANGED <<messageVars, fnVars, atStart, workerVars, callVars, error, processedText,
                   duration, lastDenoised, inferResult, inferStatus, generated>>

\* the estimator answers denoised: lines 212-225, then the loop head again.
\* throwsStep / throwsXt: currentStepTensor.dispose() / xtTensor.dispose() throws
EstResolved(denoised, throwsStep, throwsXt, throwing) ==
    /\ pc = "await_est"
    /\ \E r \in inflight :
          /\ r.op = "est"
          /\ LET lg  == Append(log, RetEv("est", chunkPos, step))
                 fl  == inflight \ {r}
                 dim == Len(xt[1])
                 len == Len(xt[1][1])
             IN
             IF throwsStep
             THEN /\ Throw(DisposeMsg, disposed, tensorsToDispose, throwing,
                           threwOn \cup {Tensor("currentStep", step)}, lg, fl)
                  /\ UNCHANGED <<latentVars>>
             ELSE IF throwsXt
             THEN /\ Throw(DisposeMsg, disposed \cup {Tensor("currentStep", step)},
                           tensorsToDispose, throwing,
                           threwOn \cup {Tensor("xt", step)}, lg, fl)
                  /\ UNCHANGED <<latentVars>>
             ELSE /\ throwing = {}
                  /\ LoopHead(chunkPos, step + 1, UpdateLatent(xt, denoised, 1, dim, len),
                              created,
                              disposed \cup {Tensor("currentStep", step), Tensor("xt", step)},
                              tensorsToDispose, threwOn, lg, fl)
                  /\ lastDenoised' = denoised
                  /\ UNCHANGED <<error, inferStatus, processedText, duration, sampled>>
    /\ UNCHANGED <<messageVars, fnVars, atStart, workerVars, callVars, inferResult, generated>>

\* the vocoder answers wav: lines 244-254, _infer returns
VocResolved(wav, throwing) ==
    /\ pc = "await_voc"
    /\ \E r \in inflight :
          /\ r.op = "voc"
          /\ inflight' = inflight \ {r}
    /\ inferResult' = [wav |-> wav, duration |-> duration]
    /\ disposed' = Finally(disposed, tensorsToDispose, throwing)
    /\ threwOn' = threwOn \cup throwing
    /\ inferStatus' = "returned"
    /\ pc' = "infer_returned"
    /\ log' = Append(log, RetEv("voc", chunkPos, 0))
    /\ UNCHANGED <<messageVars, fnVars, atStart, workerVars, callVars, error, latentVars,
                   tensorsToDispose, created, generated>>

\* the engine call in flight fails: the await throws inside _infer's try
EngineRejected(throwing) ==
    /\ pc \in {"await_dp", "await_enc", "await_est", "await_voc"}
    /\ \E r \in inflight :
          Throw(EngineMsg, disposed, tensorsToDispose, throwing, threwOn,
                Append(log, FailEv(r.op, r.chunk, r.step)), inflight \ {r})
    /\ UNCHANGED <<messageVars, fnVars, atStart, workerVars, callVars, latentVars, inferResult,
                   generated>>

\* floor(silenceDuration * sampleRate) zero samples
Silence(silenceDuration) ==
    [i \in 1..RatFloor(RatMul(silenceDuration, RatInt(SampleRate))) |-> 0]

\* wav.slice(0, n)
Slice(w, n) == SubSeq(w, 1, IF n < Len(w) THEN n ELSE Len(w))

\* a run of _infer has ended and its result is taken: its locals are gone
InferLeft ==
    /\ duration' = <<0, 1>>
    /\ xt' = <<>>
    /\ step' = 0
    /\ sampled' = <<>>
    /\ lastDenoised' = <<>>
    /\ tensorsToDispose' = <<>>
    /\ created' = {}
    /\ disposed' = {}
    /\ threwOn' = {}
    /\ UNCHANGED processedText

\* lines 281-291: wavCat after one more chunk; first when wavCat === null
ConcatWavSilenceLast(first, cat, wav, silenceDuration) ==
    IF first THEN wav ELSE cat \o wav \o Silence(silenceDuration)

ConcatWav(first, cat, wav, silenceDuration) ==
    IF first THEN wav ELSE cat \o Silence(silenceDuration) \o wav

\* lines 281-291: durCat after one more chunk
ConcatDurationSilenceAlways(first, cat, d, silenceDuration) ==
    RatAdd(cat, RatAdd(d, silenceDuration))

ConcatDuration(first, cat, d, silenceDuration) ==
    IF first THEN d ELSE RatAdd(cat, RatAdd(d, silenceDuration))

\* call resumes with the result of _infer: lines 279-291, then the next
\* iteration up to its first await, or the return
CallResume ==
    /\ pc = "infer_returned"
    /\ processedChunks' = processedChunks + 1
    /\ results' = Append(results, inferResult)
    /\ wavCat' = [isNull |-> FALSE,
                  data |-> ConcatWav(wavCat.isNull, wavCat.data, inferResult.wav,
                                     req.silenceDuration)]
    /\ durCat' = ConcatDuration(wavCat.isNull, durCat, inferResult.duration,
                                req.silenceDuration)
    /\ chunkPos' = IterNext(chunkPos)
    /\ IF chunkPos' <= Len(textList)
       THEN InferStart(chunkPos', textList[chunkPos'], style, log, inflight)
       ELSE /\ pc' = "call_returned"
            /\ InferLeft
            /\ UNCHANGED <<inflight, inferStatus, log>>
    /\ UNCHANGED <<messageVars, fnVars, atStart, workerVars, style, textList, error, inferResult,
                   generated>>

\* call has no catch: the exception of _infer rejects its promise
CallRejectedSwallowed ==
    /\ pc = "infer_threw"
    /\ pc' = "call_returned"
    /\ InferLeft
    /\ UNCHANGED <<messageVars, fnVars, atStart, workerVars, callVars, error, inferResult,
                   inflight, inferStatus, generated, log>>

CallRejected ==
    /\ pc = "infer_threw"
    /\ pc' = "call_threw"
    /\ InferLeft
    /\ UNCHANGED <<messageVars, fnVars, atStart, workerVars, callVars, error, inferResult,
                   inflight, inferStatus, generated, log>>

\* the handler resumes with the result of call: lines 563-577
HandlerResume ==
    /\ pc = "call_returned"
    /\ LET wavLen == RatFloor(RatMul(RatInt(SampleRate), durCat)) IN
       generated' = [sent |-> TRUE, wav |-> Slice(wavCat.data, wavLen),
                     duration |-> durCat]
    /\ log' = Append(log, PostEv("generated", ""))
    /\ pc' = "done"
    /\ UNCHANGED <<messageVars, fnVars, atStart, workerVars, callVars, error, latentVars,
                   tensorVars, inferResult, inflight, inferStatus>>

\* the handler's catch: lines 583-589
HandlerCatch ==
    /\ pc = "call_threw"
    /\ log' = Append(log, PostEv("error", error))
    /\ pc' = "done"
    /\ UNCHANGED <<messageVars, fnVars, atStart, workerVars, callVars, error, latentVars,
                   tensorVars, inferResult, inflight, inferStatus, generated>>

\* answers the engine may give
DenoisedFor(x) == {Pattern(k, Len(x[1]) * Len(x[1][1])) : k \in Patterns}

\* the dispose() calls of one finally block that throw
ThrowSets(ttd) == {S \in SUBSET Range(ttd) : Cardinality(S) <= MaxThrowing}

\* the vocoder answers with one sample per latent frame position
VocoderOutputs(x) ==
    {[i \in 1..(Len(x[1][1]) * BaseChunkSize * ChunkCompress) |-> v] : v \in WavVals}

\* the engine settles the call in flight, with every answer it may give
DurationAnswer ==
    /\ pc = "await_dp"
    /\ \E d \in Durations : DpResolved(d)

TextEncoderAnswer ==
    /\ pc = "await_enc"
    /\ \E noise \in NoiseDraws(duration) : EncResolved(noise)

EstimatorAnswer ==
    /\ pc = "await_est"
    /\ \E denoised \in DenoisedFor(xt), throwsStep \in BOOLEAN, throwsXt \in BOOLEAN,
          throwing \in ThrowSets(tensorsToDispose) :
          EstResolved(denoised, throwsStep, throwsXt, throwing)

VocoderAnswer ==
    /\ pc = "await_voc"
    /\ \E wav \in VocoderOutputs(xt), throwing \in ThrowSets(tensorsToDispose) :
          VocResolved(wav, throwing)

EngineFailure ==
    /\ pc \in {"await_dp", "await_enc", "await_est", "await_voc"}
    /\ \E throwing \in ThrowSets(tensorsToDispose) : EngineRejected(throwing)

Next ==
    \/ Generate
    \/ DurationAnswer
    \/ TextEncoderAnswer
    \/ EstimatorAnswer
    \/ VocoderAnswer
    \/ EngineFailure
    \/ CallResume
    \/ CallRejected
    \/ HandlerResume
    \/ HandlerCatch

Spec == Init /\ [][Next]_vars

(***************************************************************************)
(* The 'init' and 'loadStyle' messages, handled while the 'generate'       *)
(* request is handled: every await of a handler lets the others run.       *)
(***************************************************************************)
\* the awaits of case 'init' in order: the two fetches with their json(),
\* then loadOnnx for each of the four models
InitStages ==
    <<"cfg_fetch", "cfg_json", "indexer_fetch", "indexer_json",
      "session_1", "session_2", "session_3", "session_4">>

\* the awaits of case 'loadStyle' in order: fetch and json() inside
\* loadVoiceStyle, then the await of loadVoiceStyle itself
LoadStages == <<"fetch", "json", "returned">>

\* an 'init' message is handled up to its first await; main.js sends a
\* second one after the first has failed
InitMessage ==
    /\ initPc \in {"none", "failed"}
    /\ initPc' = InitStages[1]
    /\ UNCHANGED <<textToSpeech, currentStyle, loads, req, requestVars, fnVars, messageVars>>

\* the promise 'init' awaits resolves: on to the next await, or, after the
\* last one, textToSpeech is assigned and 'initialized' is posted
InitProceeds ==
    /\ \E k \in DOMAIN InitStages :
          /\ initPc = InitStages[k]
          /\ IF k < Len(InitStages)
             THEN initPc' = InitStages[k + 1] /\ UNCHANGED textToSpeech
             ELSE initPc' = "done" /\ textToSpeech' = TRUE
    /\ UNCHANGED <<currentStyle, loads, req, requestVars, fnVars, messageVars>>

\* the promise 'init' awaits rejects: the catch posts 'error'
InitFails ==
    /\ initPc \in Range(InitStages)
    /\ initPc' = "failed"
    /\ UNCHANGED <<textToSpeech, currentStyle, loads, req, requestVars, fnVars, messageVars>>

\* the k-th 'loadStyle' message is handled up to the first await
LoadStyleMessage(k) ==
    /\ loads[k] = "none"
    /\ k > 1 => loads[k - 1] # "none"
    /\ loads' = [loads EXCEPT ![k] = LoadStages[1]]
    /\ UNCHANGED <<textToSpeech, currentStyle, initPc, req, requestVars, fnVars, messageVars>>

\* the promise the k-th 'loadStyle' awaits resolves: on to the next await,
\* or, after the last one, currentStyle is assigned and 'styleLoaded' is posted
LoadStyleProceeds(k, dim0) ==
    /\ \E j \in DOMAIN LoadStages :
          /\ loads[k] = LoadStages[j]
          /\ IF j < Len(LoadStages)
             THEN /\ loads' = [loads EXCEPT ![k] = LoadStages[j + 1]]
                  /\ UNCHANGED currentStyle
             ELSE /\ loads' = [loads EXCEPT ![k] = "done"]
                  /\ currentStyle' = LoadedStyle(dim0, k)
    /\ UNCHANGED <<textToSpeech, initPc, req, requestVars, fnVars, messageVars>>

\* fetch or json() rejects, or the file lacks a field: the catch posts 'error'
LoadStyleFails(k) ==
    /\ loads[k] \in {"fetch", "json"}
    /\ loads' = [loads EXCEPT ![k] = "failed"]
    /\ UNCHANGED <<textToSpeech, currentStyle, initPc, req, requestVars, fnVars, messageVars>>

LoadStyleArrives  == \E k \in 1..MaxLoads : LoadStyleMessage(k)
LoadStyleAnswered == \E k \in 1..MaxLoads, dim0 \in StyleDims : LoadStyleProceeds(k, dim0)
LoadStyleRejected == \E k \in 1..MaxLoads : LoadStyleFails(k)

\* the 'generate' request of the worker specification: two chunks, one step
WorkerRequests ==
    { [text |-> Str(<<"a", "@", "b", "\n", "\n", "N", "o", "!">>), totalStep |-> 1,
       speed |-> <<1, 1>>, silenceDuration |-> <<3, 10>>] }

InitWorker ==
    /\ FreshWorker
    /\ req \in WorkerRequests
    /\ IdleRequest
    /\ NoMessages
    /\ NoFunction

NextWorker ==
    \/ InitMessage
    \/ InitProceeds
    \/ InitFails
    \/ LoadStyleArrives
    \/ LoadStyleAnswered
    \/ LoadStyleRejected
    \/ Generate
    \/ DurationAnswer
    \/ TextEncoderAnswer
    \/ EstimatorAnswer
    \/ VocoderAnswer
    \/ EngineFailure
    \/ CallResume
    \/ CallRejected
    \/ HandlerResume
    \/ HandlerCatch

\* the worker from its start, with the three kinds of message in any order
SpecWorker == InitWorker /\ [][NextWorker]_vars

(***************************************************************************)
(* chunkText and preprocessText applied on their own to every short text   *)
(* over a few characters.                                                  *)
(***************************************************************************)
\* the strings over an alphabet of length at most n
BoundedTexts(alphabet, n) == UNION {[1..k -> alphabet] : k \in 0..n}

\* a letter, a capital, a sentence end, and the two kinds of whitespace
ChunkAlphabet == {"a", "A", ".", " ", "\n"}
\* maxLen of the calls
ChunkLimits == {2, 4}
\* a letter, whitespace, two punctuation marks and a replaced expression
NormAlphabet == {"a", " ", ".", "'", "@"}

\* no message reaches the worker
NoRequest ==
    [text |-> NotAString, totalStep |-> 0, speed |-> <<1, 1>>,
     silenceDuration |-> <<3, 10>>]

InitChunk ==
    /\ FreshWorker
    /\ req = NoRequest
    /\ IdleRequest
    /\ NoMessages
    /\ fnPc = "input"
    /\ textIn \in BoundedTexts(ChunkAlphabet, MaxChunkTextLen)
    /\ maxLenIn \in ChunkLimits
    /\ textOut = <<>>
    /\ fnArgs = <<>>
    /\ fnResult = <<>>

\* chunkText(textIn, maxLenIn)
ApplyChunkText ==
    /\ fnPc = "input"
    /\ fnPc' = "chunked"
    /\ textOut' = ChunkText(Str(textIn), maxLenIn)
    /\ UNCHANGED <<textIn, maxLenIn, fnArgs, fnResult, workerVars, requestVars,
                   messageVars>>

NextChunk == ApplyChunkText

SpecChunk == InitChunk /\ [][NextChunk]_vars

InitNorm ==
    /\ FreshWorker
    /\ req = NoRequest
    /\ IdleRequest
    /\ NoMessages
    /\ fnPc = "input"
    /\ textIn \in BoundedTexts(NormAlphabet, MaxNormLen)
    /\ maxLenIn = 0
    /\ textOut = <<>>
    /\ fnArgs = <<>>
    /\ fnResult = <<>>

\* preprocessText(textIn)
ApplyPreprocessText ==
    /\ fnPc = "input"
    /\ fnPc' = "normalized"
    /\ textOut' = PreprocessText(textIn)
    /\ UNCHANGED <<textIn, maxLenIn, fnArgs, fnResult, workerVars, requestVars,
                   messageVars>>

\* preprocessText of that result
ApplyPreprocessTextAgain ==
    /\ fnPc = "normalized"
    /\ fnPc' = "renormalized"
    /\ textOut' = PreprocessText(textOut)
    /\ UNCHANGED <<textIn, maxLenIn, fnArgs, fnResult, workerVars, requestVars,
                   messageVars>>

NextNorm ==
    \/ ApplyPreprocessText
    \/ ApplyPreprocessTextAgain

SpecNorm == InitNorm /\ [][NextNorm]_vars

(***************************************************************************)
(* UnicodeProcessor.call applied on its own to batches of one and of two   *)
(* short texts.                                                            *)
(***************************************************************************)
\* a letter, whitespace and a character outside the basic plane (a CJK
\* ideograph of Extension B, which no step of preprocessText touches)
IndexAlphabet == {"a", " ", "U+20000"}
\* lengths of the indexer array: ASCII only, and the whole basic plane
IndexerLengths == {128, 65536}
\* sizes of a batch
BatchSizes == 1..2

InitIndex ==
    /\ FreshWorker
    /\ req = NoRequest
    /\ IdleRequest
    /\ NoMessages
    /\ fnPc = "input"
    /\ textIn = <<>>
    /\ maxLenIn = 0
    /\ textOut = <<>>
    /\ fnArgs \in [textList : UNION {[1..n -> BoundedTexts(IndexAlphabet, MaxIndexLen)] :
                                       n \in BatchSizes},
                    indexer : {IndexerTable(n) : n \in IndexerLengths}]
    /\ fnResult = <<>>

\* new UnicodeProcessor(indexer).call(textList)
ApplyTextProcessor ==
    /\ fnPc = "input"
    /\ fnPc' = "indexed"
    /\ fnResult' = TextProcessorCall(fnArgs.indexer, fnArgs.textList)
    /\ UNCHANGED <<textIn, maxLenIn, textOut, fnArgs, workerVars, requestVars,
                   messageVars>>

NextIndex == ApplyTextProcessor

SpecIndex == InitIndex /\ [][NextIndex]_vars

(***************************************************************************)
(* sampleNoisyLatent applied on its own to batches of one and of two       *)
(* durations.                                                              *)
(***************************************************************************)
\* durations of a batch, in seconds
LatentDurations == {<<1, 4>>, <<5, 8>>, <<1, 1>>, <<3, 2>>}
\* cfgs.ae.sample_rate, cfgs.ae.base_chunk_size, cfgs.ttl.chunk_compress_factor
\* and cfgs.ttl.latent_dim of the calls
LatentConfigs ==
    [sampleRate : {SampleRate}, baseChunkSize : 1..2, chunkCompress : 1..2,
     latentDim : 1..2]
\* the draws of a call: every element a number that is not 0, of either sign
NoiseTensors(bsz, dim, len) ==
    {[b \in 1..bsz |-> [d \in 1..dim |-> [t \in 1..len |-> v * (1 + ((b + d + t) % 2))]]] :
        v \in {-1, 1}}

InitLatent ==
    /\ FreshWorker
    /\ req = NoRequest
    /\ IdleRequest
    /\ NoMessages
    /\ fnPc = "input"
    /\ textIn = <<>>
    /\ maxLenIn = 0
    /\ textOut = <<>>
    /\ fnArgs \in [duration : UNION {[1..n -> LatentDurations] : n \in BatchSizes},
                    cfgs : LatentConfigs]
    /\ fnResult = <<>>

\* sampleNoisyLatent(duration, sampleRate, baseChunkSize, chunkCompress, latentDim)
ApplySampleNoisyLatent ==
    /\ fnPc = "input"
    /\ fnPc' = "sampled"
    /\ LET c       == fnArgs.cfgs
           \* draws for latentLen positions, which are at most wavLenMax
           wavLens == [b \in DOMAIN fnArgs.duration |->
                          RatFloor(RatMul(fnArgs.duration[b], RatInt(c.sampleRate)))]
       IN
       \E noise \in NoiseTensors(Len(fnArgs.duration), c.latentDim * c.chunkCompress,
                                  MaxOf(wavLens)) :
          fnResult' = SampleNoisyLatentBatch(fnArgs.duration, c.sampleRate, c.baseChunkSize,
                                             c.chunkCompress, c.latentDim, noise)
    /\ UNCHANGED <<textIn, maxLenIn, textOut, fnArgs, workerVars, requestVars,
                   messageVars>>

NextLatent == ApplySampleNoisyLatent

SpecLatent == InitLatent /\ [][NextLatent]_vars

(***************************************************************************)
(* writeWavFile applied on its own to every short sequence of samples.     *)
(***************************************************************************)
\* values of a sample: in range, at the limits and beyond them
WavSamples ==
    {<<-2, 1>>, <<-1, 1>>, <<-1, 2>>, <<0, 1>>, <<1, 3>>, <<1, 2>>, <<1, 1>>, <<3, 2>>}
\* sample rates: the one of the model's cfgs and that of the shipped tts.json
WavSampleRates == {SampleRate, 44100}

InitWav ==
    /\ FreshWorker
    /\ req = NoRequest
    /\ IdleRequest
    /\ NoMessages
    /\ fnPc = "input"
    /\ textIn = <<>>
    /\ maxLenIn = 0
    /\ textOut = <<>>
    /\ fnArgs \in [audioData : UNION {[1..n -> WavSamples] : n \in 0..MaxWavLen},
                    sampleRate : WavSampleRates]
    /\ fnResult = <<>>

\* writeWavFile(audioData, sampleRate)
ApplyWriteWavFile ==
    /\ fnPc = "input"
    /\ fnPc' = "encoded"
    /\ fnResult' = WriteWavFile(fnArgs.audioData, fnArgs.sampleRate)
    /\ UNCHANGED <<textIn, maxLenIn, textOut, fnArgs, workerVars, requestVars,
                   messageVars>>

NextWav == ApplyWriteWavFile

SpecWav == InitWav /\ [][NextWav]_vars

(***************************************************************************)
(* The worker and the page at the level of their messages. Each message    *)
(* the worker receives starts a call of self.onmessage that runs up to its *)
(* first await while the calls of earlier messages are suspended at        *)
(* theirs; TextToSpeechWorker.call is seen from outside here, as the       *)
(* progress messages it causes and the way it ends.                        *)
(***************************************************************************)
\* a function with one more argument
With(f, k, v) == [x \in DOMAIN f \cup {k} |-> IF x = k THEN v ELSE f[x]]
Without(f, k) == [x \in DOMAIN f \ {k} |-> f[x]]

\* the data of a message: stylePath is payload.stylePath of 'loadStyle'
Message(type, id, stylePath) == [type |-> type, id |-> id, stylePath |-> stylePath]

\* one call of self.onmessage: where it is suspended, the style handed to
\* textToSpeech.call and the denoising steps that call has yet to report
Handler(type, at, stylePath, st, n) ==
    [type |-> type, pc |-> at, stylePath |-> stylePath, style |-> st, steps |-> n]

\* the call has ended: its locals are gone
Ended(h) == Handler(h.type, "done", h.stylePath, NoStyle, 0)

\* the types that answer a request
TerminalTypes == {"initialized", "styleLoaded", "generated", "error"}

\* self.postMessage({type, id, ...}) by the call handling message id; the
\* message waits for ttsWorker.onmessage when there is a page, and a client
\* without a listener lets it drop
Delivered(queue, type, id) ==
    IF ttsWorker THEN Append(queue, Message(type, id, "")) ELSE queue

PostMessage(type, id) ==
    /\ toMain' = Delivered(toMain, type, id)
    /\ posted' = [posted EXCEPT ![id] = Append(@, type)]

\* how many denoising steps a 'generate' request takes in all, which its
\* text and totalStep decide
ProgressCounts == 0..1


\* the worker takes the next message: self.onmessage up to its first await,
\* or to its end when the guard of 'generate' or the default case throws
WorkerReceives ==
    /\ toWorker # <<>>
    /\ LET m == Head(toWorker) IN
       /\ toWorker' = Tail(toWorker)
       /\ CASE m.type = "init" ->
                 /\ handlers' = With(handlers, m.id,
                                     Handler("init", InitStages[1], "", NoStyle, 0))
                 /\ posted' = With(posted, m.id, <<>>)
                 /\ UNCHANGED toMain
            [] m.type = "loadStyle" ->
                 /\ handlers' = With(handlers, m.id,
                                     Handler("loadStyle", LoadStages[1], m.stylePath, NoStyle, 0))
                 /\ posted' = With(posted, m.id, <<>>)
                 /\ UNCHANGED toMain
            [] m.type = "generate" /\ Ready(textToSpeech, currentStyle) ->
                 /\ \E steps \in ProgressCounts :
                       handlers' = With(handlers, m.id,
                                       Handler("generate", "call", "", currentStyle, steps))
                 /\ posted' = With(posted, m.id, <<>>)
                 /\ UNCHANGED toMain
            [] OTHER ->
                 /\ handlers' = With(handlers, m.id, Handler(m.type, "done", "", NoStyle, 0))
                 /\ posted' = With(posted, m.id, <<"error">>)
                 /\ toMain' = Delivered(toMain, "error", m.id)
    /\ UNCHANGED <<textToSpeech, currentStyle, cfgs, pageVars, initPc, loads, req,
                   requestVars, fnVars>>

\* the promise a call of case 'init' awaits resolves: cfgs is assigned after
\* the first json(), a 'progress' message precedes each loadOnnx, and after
\* the last one textToSpeech is assigned and 'initialized' posted
InitHandlerProceeds(id) ==
    /\ handlers[id].type = "init"
    /\ \E k \in DOMAIN InitStages :
          /\ handlers[id].pc = InitStages[k]
          /\ cfgs' = IF k = 2 THEN TRUE ELSE cfgs
          /\ IF k < Len(InitStages)
             THEN /\ handlers' = [handlers EXCEPT ![id].pc = InitStages[k + 1]]
                  /\ IF k >= 4 THEN PostMessage("progress", id)
                               ELSE UNCHANGED <<toMain, posted>>
                  /\ UNCHANGED textToSpeech
             ELSE /\ handlers' = [handlers EXCEPT ![id] = Ended(@)]
                  /\ textToSpeech' = TRUE
                  /\ PostMessage("initialized", id)
    /\ UNCHANGED <<currentStyle, toWorker, pageVars, initPc, loads, req, requestVars,
                   fnVars>>

\* the promise a call of case 'init' awaits rejects: the catch posts 'error'
InitHandlerFails(id) ==
    /\ handlers[id].type = "init"
    /\ handlers[id].pc \in Range(InitStages)
    /\ handlers' = [handlers EXCEPT ![id] = Ended(@)]
    /\ PostMessage("error", id)
    /\ UNCHANGED <<textToSpeech, currentStyle, cfgs, toWorker, pageVars, initPc, loads,
                   req, requestVars, fnVars>>

\* the promise a call of case 'loadStyle' awaits resolves: on to the next
\* await, or currentStyle is assigned and 'styleLoaded' posted
LoadStyleHandlerProceeds(id, dim0) ==
    /\ handlers[id].type = "loadStyle"
    /\ \E j \in DOMAIN LoadStages :
          /\ handlers[id].pc = LoadStages[j]
          /\ IF j < Len(LoadStages)
             THEN /\ handlers' = [handlers EXCEPT ![id].pc = LoadStages[j + 1]]
                  /\ UNCHANGED <<currentStyle, toMain, posted>>
             ELSE /\ handlers' = [handlers EXCEPT ![id] = Ended(@)]
                  /\ currentStyle' = LoadedStyle(dim0, id)
                  /\ PostMessage("styleLoaded", id)
    /\ UNCHANGED <<textToSpeech, cfgs, toWorker, pageVars, initPc, loads, req,
                   requestVars, fnVars>>

LoadStyleHandlerFailsClearing(id) ==
    /\ handlers[id].type = "loadStyle"
    /\ handlers[id].pc \in {"fetch", "json"}
    /\ handlers' = [handlers EXCEPT ![id] = Ended(@)]
    /\ currentStyle' = NoStyle
    /\ PostMessage("error", id)
    /\ UNCHANGED <<textToSpeech, cfgs, toWorker, pageVars, initPc, loads, req,
                   requestVars, fnVars>>

\* fetch or json() rejects, or the file lacks a field so that loadVoiceStyle
\* throws: the assignment of line 525 does not happen, the catch posts 'error'
LoadStyleHandlerFails(id) ==
    /\ handlers[id].type = "loadStyle"
    /\ handlers[id].pc \in {"fetch", "json"}
    /\ handlers' = [handlers EXCEPT ![id] = Ended(@)]
    /\ PostMessage("error", id)
    /\ UNCHANGED <<textToSpeech, currentStyle, cfgs, toWorker, pageVars, initPc, loads,
                   req, requestVars, fnVars>>

\* textToSpeech.call reports a denoising step: the callback posts 'progress'
GenerateHandlerProgress(id) ==
    /\ handlers[id].type = "generate"
    /\ handlers[id].pc = "call"
    /\ handlers[id].steps > 0
    /\ handlers' = [handlers EXCEPT ![id].steps = @ - 1]
    /\ PostMessage("progress", id)
    /\ UNCHANGED <<textToSpeech, currentStyle, cfgs, toWorker, pageVars, initPc, loads,
                   req, requestVars, fnVars>>

\* textToSpeech.call returns: the WAV file is written and 'generated' posted
GenerateHandlerReturns(id) ==
    /\ handlers[id].type = "generate"
    /\ handlers[id].pc = "call"
    /\ handlers[id].steps = 0
    /\ handlers' = [handlers EXCEPT ![id] = Ended(@)]
    /\ PostMessage("generated", id)
    /\ UNCHANGED <<textToSpeech, currentStyle, cfgs, toWorker, pageVars, initPc, loads,
                   req, requestVars, fnVars>>

GenerateHandlerThrowsSilently(id) ==
    /\ handlers[id].type = "generate"
    /\ handlers[id].pc = "call"
    /\ handlers' = [handlers EXCEPT ![id] = Ended(@)]
    /\ UNCHANGED <<textToSpeech, currentStyle, cfgs, toWorker, toMain, posted, pageVars,
                   initPc, loads, req, requestVars, fnVars>>

\* textToSpeech.call rejects: the catch posts 'error'
GenerateHandlerThrows(id) ==
    /\ handlers[id].type = "generate"
    /\ handlers[id].pc = "call"
    /\ handlers' = [handlers EXCEPT ![id] = Ended(@)]
    /\ PostMessage("error", id)
    /\ UNCHANGED <<textToSpeech, currentStyle, cfgs, toWorker, pageVars, initPc, loads,
                   req, requestVars, fnVars>>

InitContinues       == \E id \in DOMAIN handlers : InitHandlerProceeds(id)
InitRejected        == \E id \in DOMAIN handlers : InitHandlerFails(id)
\* the style files give style_ttl.dims[0] = 1; with another value call
\* throws, which is one of the ways GenerateThrows stands for
LoadStyleContinues  == \E id \in DOMAIN handlers : LoadStyleHandlerProceeds(id, 1)
LoadStyleThrows     == \E id \in DOMAIN handlers : LoadStyleHandlerFails(id)
GenerateReports     == \E id \in DOMAIN handlers : GenerateHandlerProgress(id)
GenerateReturns     == \E id \in DOMAIN handlers : GenerateHandlerReturns(id)
GenerateThrows      == \E id \in DOMAIN handlers : GenerateHandlerThrows(id)

(***************************************************************************)
(* The page (main.js). An async function suspended at                      *)
(* await sendWorkerMessage(...) resumes in the microtask that follows the  *)
(* ttsWorker.onmessage call settling its promise, before any other event   *)
(* is handled: the delivery of an answer and the code up to the next await *)
(* are one action. workerCallbacks[id] names the await holding the promise *)
(* of request id.                                                          *)
(***************************************************************************)
\* the options of the voice style select
StylePaths == {DefaultVoiceStylePath, "assets/voice_styles/F1.json"}

\* sendWorkerMessage(type, payload), awaited at the place named by await;
\* callbacks and counts are workerCallbacks and settled as the caller has
\* left them
SendWorkerMessage(type, stylePath, await, callbacks, counts) ==
    LET id == workerMessageId + 1 IN
    /\ workerMessageId' = id
    /\ workerCallbacks' = With(callbacks, id, await)
    /\ toWorker' = Append(toWorker, Message(type, id, stylePath))
    /\ settled' = With(counts, id, 0)

\* the page and its worker when the handler of the window's 'load' event
\* has ended and the webgpu provider was available: initializeModels has
\* created the worker, 'init' (id 1) was answered by 'initialized',
\* 'loadStyle' of the default style (id 2) by 'styleLoaded', and the button
\* is enabled
PageLoaded ==
    /\ ttsWorker = TRUE
    /\ workerMessageId = 2
    /\ workerCallbacks = <<>>
    /\ settled = <<1, 1>>
    /\ currentStylePath = DefaultVoiceStylePath
    /\ generateBtnDisabled = FALSE
    /\ progressHidden = TRUE
    /\ events = 0
    /\ toWorker = <<>>
    /\ toMain = <<>>
    /\ cfgs = TRUE
    /\ textToSpeech = TRUE
    /\ currentStyle = LoadedStyle(1, 2)
    /\ handlers = <<Handler("init", "done", "", NoStyle, 0),
                    Handler("loadStyle", "done", DefaultVoiceStylePath, NoStyle, 0)>>
    /\ posted = << <<"initialized">>, <<"styleLoaded">> >>

\* 'change' of voiceStyleSelect, which the user causes by picking an option
\* other than the one the select shows (the default one at first, then
\* currentStylePath by lines 271 and 287-288), up to the await of 'loadStyle'
StyleChange(selectedValue) ==
    /\ ttsWorker
    /\ selectedValue # currentStylePath
    /\ events < MaxEvents
    /\ events' = events + 1
    /\ generateBtnDisabled' = TRUE
    /\ currentStylePath' = selectedValue
    /\ SendWorkerMessage("loadStyle", selectedValue, "change", workerCallbacks, settled)
    /\ UNCHANGED <<ttsWorker, progressHidden, cfgs, handlers, posted, toMain, workerVars,
                   requestVars, fnVars>>

\* a click on the generate button, which a disabled button does not give:
\* generateSpeech with a text that is not empty, up to the await of 'generate'
GenerateSpeech ==
    /\ ttsWorker
    /\ ~generateBtnDisabled
    /\ events < MaxEvents
    /\ events' = events + 1
    /\ generateBtnDisabled' = TRUE
    /\ progressHidden' = FALSE
    /\ SendWorkerMessage("generate", "", "generate", workerCallbacks, settled)
    /\ UNCHANGED <<ttsWorker, currentStylePath, cfgs, handlers, posted, toMain, workerVars,
                   requestVars, fnVars>>

\* an async function ends, or its promise is settled, without a new request
NoRequestSent(callbacks, counts) ==
    /\ workerCallbacks' = callbacks
    /\ settled' = counts
    /\ UNCHANGED <<workerMessageId, toWorker>>

GenerateSpeechResumesKeepingProgress(resolved) ==
    /\ generateBtnDisabled' = FALSE
    /\ progressHidden' = IF resolved THEN TRUE ELSE progressHidden

\* generateSpeech after its await: hideProgress() on the path of the try
\* and on that of the catch, then the finally block
GenerateSpeechResumes(resolved) ==
    /\ generateBtnDisabled' = FALSE
    /\ progressHidden' = TRUE

\* the async function suspended at the await resumes with its promise
\* resolved or rejected
Resume(await, resolved, callbacks, counts) ==
    CASE await = "change" /\ resolved ->
            /\ generateBtnDisabled' = FALSE
            /\ NoRequestSent(callbacks, counts)
            /\ UNCHANGED <<currentStylePath, progressHidden>>
      [] await = "change" /\ ~resolved ->
            \* catch: the default style is restored
            /\ currentStylePath' = DefaultVoiceStylePath
            /\ SendWorkerMessage("loadStyle", DefaultVoiceStylePath, "change_restore",
                                 callbacks, counts)
            /\ UNCHANGED <<generateBtnDisabled, progressHidden>>
      [] await = "change_restore" ->
            /\ generateBtnDisabled' = FALSE
            /\ NoRequestSent(callbacks, counts)
            /\ UNCHANGED <<currentStylePath, progressHidden>>
      [] await = "generate" ->
            /\ GenerateSpeechResumes(resolved)
            /\ NoRequestSent(callbacks, counts)
            /\ UNCHANGED currentStylePath

\* ttsWorker.onmessage: 'progress' goes to handleWorkerProgress; any other
\* message settles the promise of its id, if workerCallbacks has it, and
\* removes the entry
PageReceives ==
    /\ toMain # <<>>
    /\ toMain' = Tail(toMain)
    /\ LET m == Head(toMain) IN
       IF m.type # "progress" /\ m.id \in DOMAIN workerCallbacks
       THEN Resume(workerCallbacks[m.id], m.type # "error",
                   Without(workerCallbacks, m.id), [settled EXCEPT ![m.id] = @ + 1])
       ELSE UNCHANGED <<workerMessageId, workerCallbacks, settled, toWorker,
                        currentStylePath, generateBtnDisabled, progressHidden>>
    /\ UNCHANGED <<ttsWorker, events, cfgs, handlers, posted, workerVars,
                   requestVars, fnVars>>

VoiceStyleChanges == \E selectedValue \in StylePaths : StyleChange(selectedValue)

\* the loaded page; the user acts from here on
InitMain ==
    /\ PageLoaded
    /\ initPc = "none"
    /\ loads = [k \in 1..MaxLoads |-> "none"]
    /\ req = NoRequest
    /\ IdleRequest
    /\ NoFunction

NextMain ==
    \/ VoiceStyleChanges
    \/ GenerateSpeech
    \/ PageReceives
    \/ WorkerReceives
    \/ LoadStyleContinues
    \/ LoadStyleThrows
    \/ GenerateReports
    \/ GenerateReturns
    \/ GenerateThrows

SpecMain == InitMain /\ [][NextMain]_vars

(***************************************************************************)
(* The worker with a client that posts any message, the types main.js      *)
(* never sends included.                                                   *)
(***************************************************************************)
\* the types of message a client may post
MessageTypes == {"init", "loadStyle", "generate", "unknown"}

\* worker.postMessage({type, payload, id}) with the next id
ClientPosts(type, stylePath) ==
    /\ workerMessageId < MaxMessages
    /\ workerMessageId' = workerMessageId + 1
    /\ toWorker' = Append(toWorker, Message(type, workerMessageId + 1, stylePath))
    /\ UNCHANGED <<ttsWorker, workerCallbacks, settled, currentStylePath,
                   generateBtnDisabled, progressHidden, events, cfgs, handlers,
                   posted, toMain, workerVars, requestVars, fnVars>>

ClientSends ==
    \E type \in MessageTypes :
        \E stylePath \in (IF type = "loadStyle" THEN StylePaths ELSE {""}) :
            ClientPosts(type, stylePath)

\* a worker that has nothing loaded, and no page
InitProtocol ==
    /\ FreshWorker
    /\ req = NoRequest
    /\ IdleRequest
    /\ NoMessages
    /\ NoFunction

NextProtocol ==
    \/ ClientSends
    \/ WorkerReceives
    \/ InitContinues
    \/ InitRejected
    \/ LoadStyleContinues
    \/ LoadStyleThrows
    \/ GenerateReports
    \/ GenerateReturns
    \/ GenerateThrows

SpecProtocol == InitProtocol /\ [][NextProtocol]_vars

(***************************************************************************)
(* Properties.                                                             *)
(***************************************************************************)
IsCall(e, op)  == e.ev = "call" /\ e.op = op
IsProgress(e)  == e.ev = "progress"
Indices(P(_))  == {i \in 1..Len(log) : P(log[i])}
EngineFailed   == \E i \in 1..Len(log) : log[i].ev = "fail"
\* the estimator calls issued for the chunk at position c, in order
EstCalls(c)    == SelectSeq(log, LAMBDA e : IsCall(e, "est") /\ e.chunk = c)
VocoderCalled(c) == \E i \in 1..Len(log) : IsCall(log[i], "voc") /\ log[i].chunk = c
ProgressEvents == SelectSeq(log, IsProgress)

\* C1: in every run of _infer the estimator calls carry current_step
\* 0, 1, 2, ... in that order without repeat or gap and total_step = totalStep,
\* never more than totalStep of them, and exactly totalStep once the loop is
\* left (the vocoder is called), also when totalStep is 0.
C1_EstimatorStepsInOrder ==
    \A c \in 1..Len(textList) :
        LET calls == EstCalls(c) IN
        /\ Len(calls) <= req.totalStep
        /\ \A i \in 1..Len(calls) :
              calls[i].step = i - 1 /\ calls[i].total = req.totalStep
        /\ VocoderCalled(c) => Len(calls) = req.totalStep

C1_Witness ==
    /\ generated.sent
    /\ req.totalStep = 2
    /\ Len(textList) = 2
    /\ Len(EstCalls(2)) = 2

\* C2: the latent given to the estimator at step 0 is the sampled latent, the
\* latent given at a later step is exactly the denoised_latent of the step
\* before, and the latent given to the vocoder is the last denoised_latent
\* (the sampled latent when totalStep is 0).
SampledFlat(flat) ==
    /\ sampled # <<>>
    /\ Len(flat) = Len(sampled[1]) * Len(sampled[1][1])
    /\ \A d \in 1..Len(sampled[1]) : \A t \in 1..Len(sampled[1][1]) :
          flat[(d - 1) * Len(sampled[1][1]) + t] = sampled[1][d][t]

C2_LatentReplaced ==
    \A r \in inflight :
        /\ r.op = "est" =>
              IF r.step = 0 THEN SampledFlat(r.latent) ELSE r.latent = lastDenoised
        /\ r.op = "voc" =>
              IF req.totalStep = 0 THEN SampledFlat(r.latent) ELSE r.latent = lastDenoised

C2_Witness ==
    /\ pc = "await_voc"
    /\ req.totalStep = 2
    /\ Len(lastDenoised) = 4
    /\ ~SampledFlat(lastDenoised)
    /\ \E r \in inflight : r.op = "voc" /\ r.latent = lastDenoised

\* C3: every estimator call for step s is immediately preceded by the one
\* progress report (s + 1, totalStep), which comes after the answer to step
\* s - 1; every progress report is followed by its estimator call, and no
\* step of a chunk is reported twice.
C3_ProgressBeforeStep ==
    /\ \A i \in Indices(LAMBDA e : IsCall(e, "est")) :
          /\ i > 1
          /\ IsProgress(log[i - 1])
          /\ log[i - 1].step = log[i].step + 1
          /\ log[i - 1].total = req.totalStep
          /\ log[i].step > 0 =>
                /\ i > 2
                /\ log[i - 2] = RetEv("est", log[i].chunk, log[i].step - 1)
    /\ \A i \in Indices(IsProgress) :
          /\ i < Len(log)
          /\ IsCall(log[i + 1], "est")
          /\ log[i + 1].step = log[i].step - 1
          /\ \A j \in Indices(IsProgress) :
                (j # i) => (log[j].chunk # log[i].chunk \/ log[j].step # log[i].step)

C3_Witness ==
    \E i \in Indices(IsProgress) :
        /\ log[i].step = 2
        /\ log[i].chunk = 2
        /\ i + 2 <= Len(log)
        /\ log[i + 2].ev = "ret"

\* C4: within one call at most one engine call is in flight (calls and their
\* settlements alternate), engine calls go through the chunks in document
\* order starting with the first, the first call for a chunk is issued only
\* after the vocoder has answered for the chunk before it, and a call that
\* returns has run every chunk of chunkText exactly once.
C4_ChunksSequential ==
    LET E == SelectSeq(log, LAMBDA e : e.ev \in {"call", "ret", "fail"}) IN
    /\ Cardinality(inflight) <= 1
    /\ \A k \in 1..Len(E) :
          /\ (E[k].ev = "call") <=> (k % 2 = 1)
          /\ E[k].chunk \in 1..Len(textList)
          /\ k = 1 => E[k].chunk = 1
          /\ k > 1 => E[k - 1].chunk <= E[k].chunk
          /\ (k > 1 /\ E[k - 1].chunk # E[k].chunk) =>
                (E[k].ev = "call" /\ E[k - 1] = RetEv("voc", E[k].chunk - 1, 0))
    /\ generated.sent =>
          \A c \in 1..Len(textList) :
              Len(SelectSeq(log, LAMBDA e : IsCall(e, "dp") /\ e.chunk = c)) = 1

C4_Witness ==
    /\ generated.sent
    /\ Len(textList) = 3
    /\ \E i \in 1..Len(log) : log[i] = RetEv("voc", 3, 0)

\* C5: once an engine call of the request has failed, no engine call and no
\* progress report follows, the handler goes straight to its catch, the
\* request is answered by an 'error' message with the engine's error text,
\* and no 'generated' message is sent.
C5_FailureAborts ==
    \A i \in Indices(LAMBDA e : e.ev = "fail") :
        /\ \A j \in (i + 1)..Len(log) :
              /\ log[j].ev \notin {"call", "ret", "fail", "progress"}
              /\ log[j] # PostEv("generated", "")
        /\ inflight = {}
        /\ ~generated.sent
        /\ pc \in {"infer_threw", "call_threw", "done"}
        /\ pc = "done" => (i + 1 = Len(log) /\ log[i + 1] = PostEv("error", EngineMsg))

C5_Witness ==
    /\ pc = "done"
    /\ log[Len(log)] = PostEv("error", EngineMsg)
    /\ \E i \in 1..Len(log) : log[i] = FailEv("est", 2, 1)

\* C6: when call is given a style whose leading dimension is not 1, or a
\* text that is not a string, it throws before any engine call is issued and
\* before any progress report, and the request is answered by that error.
C6_ValidationBeforeInference ==
    (textToSpeech /\ currentStyle.loaded
        /\ (currentStyle.ttlDim0 # 1 \/ ~req.text.isString)) =>
        /\ \A i \in 1..Len(log) : log[i].ev = "post" /\ log[i].op = "error"
        /\ inflight = {}
        /\ inferStatus = "none"
        /\ ~generated.sent
        /\ pc \in {"idle", "call_threw", "done"}
        /\ pc # "idle" =>
              error = (IF currentStyle.ttlDim0 # 1 THEN StyleMsg ELSE NotStringMsg)
        /\ pc = "done" => log = <<PostEv("error", error)>>

C6_Witness ==
    /\ pc = "done"
    /\ textToSpeech
    /\ currentStyle.loaded
    /\ currentStyle.ttlDim0 = 1
    /\ ~req.text.isString
    /\ log = <<PostEv("error", NotStringMsg)>>

\* C7: when _infer has returned or thrown (no dispose() call having thrown),
\* every tensor it constructed has been disposed.
C7_AllTensorsDisposed ==
    (inferStatus \in {"returned", "threw"} /\ threwOn = {}) => created \subseteq disposed

\* C8: when a dispose() call of _infer has thrown, _infer still ends as it
\* would have: with the engine's error if an engine call failed, and
\* otherwise by returning its result, every tensor whose dispose() did not
\* throw being disposed.
C8_DisposeNeverRaises ==
    (inferStatus \in {"returned", "threw"} /\ threwOn # {}) =>
        IF EngineFailed
        THEN inferStatus = "threw" /\ error = EngineMsg
        ELSE inferStatus = "returned" /\ created \subseteq (disposed \cup threwOn)

\* C9: the overallProgress values of a generation never decrease, each lies
\* in (0, 1], and when the generation completes (at least one chunk, at least
\* one step) the last one is exactly 1.
C9_ProgressMonotone ==
    LET P == ProgressEvents IN
    /\ \A i \in 1..Len(P) : RatLT(<<0, 1>>, P[i].val) /\ RatLE(P[i].val, <<1, 1>>)
    /\ \A i \in 1..(Len(P) - 1) : RatLE(P[i].val, P[i + 1].val)
    /\ (generated.sent /\ req.totalStep >= 1 /\ Len(textList) >= 1) =>
          (Len(P) > 0 /\ P[Len(P)].val = <<1, 1>>)

C9_Witness ==
    /\ generated.sent
    /\ req.totalStep = 2
    /\ Len(textList) = 3
    /\ Len(ProgressEvents) = 6

\* C10 as stated: every progress event has
\* overallProgress = chunkIndex/totalChunks + step/(totalSteps*totalChunks)
\* with the chunkIndex the event carries.
C10_CarriedChunkIndex ==
    \A i \in Indices(IsProgress) :
        LET e == log[i] IN
        RatEq(e.val, RatAdd(Rat(e.chunk, e.chunks), Rat(e.step, e.total * e.chunks)))

\* C10 amended: every progress event has
\* overallProgress = (chunkIndex - 1)/totalChunks + step/(totalSteps*totalChunks)
\* where chunkIndex (counted from 1), step, totalSteps and totalChunks are the
\* values the event carries.
C10_ZeroBasedChunkIndex ==
    \A i \in Indices(IsProgress) :
        LET e == log[i] IN
        /\ e.total >= 1 /\ e.chunks >= 1
        /\ e.chunk \in 1..e.chunks /\ e.step \in 1..e.total
        /\ RatEq(e.val, RatAdd(Rat(e.chunk - 1, e.chunks), Rat(e.step, e.total * e.chunks)))

C10_Witness ==
    \E i \in Indices(IsProgress) :
        log[i].chunk = 2 /\ log[i].chunks = 3 /\ log[i].step = 1 /\ log[i].total = 2

(***************************************************************************)
(* Assembly of the chunks' results.                                        *)
(***************************************************************************)
RECURSIVE SumDurations(_, _)
SumDurations(rs, k) ==
    IF k = 0 THEN <<0, 1>> ELSE RatAdd(SumDurations(rs, k - 1), rs[k].duration)

Zeros(n) == [i \in 1..n |-> 0]

\* the first k waveforms with floor(silenceDuration * sampleRate) zeros between
RECURSIVE JoinedWav(_, _, _)
JoinedWav(rs, k, silenceDuration) ==
    IF k = 0 THEN <<>>
    ELSE IF k = 1 THEN rs[1].wav
    ELSE JoinedWav(rs, k - 1, silenceDuration)
            \o Zeros(RatFloor(RatMul(silenceDuration, RatInt(SampleRate))))
            \o rs[k].wav

\* C11 as stated: when every vocoder output has at least
\* floor(sampleRate * duration_i) samples, the waveform handed to writeWavFile
\* has exactly floor(sampleRate * totalDuration) samples, totalDuration being
\* the duration call returned.
C11_ExactSampleCount ==
    (/\ generated.sent
     /\ \A i \in 1..Len(results) :
           Len(results[i].wav) >= RatFloor(RatMul(RatInt(SampleRate), results[i].duration)))
        => Len(generated.wav) = RatFloor(RatMul(RatInt(SampleRate), generated.duration))

\* C12: after any number of chunks durCat is the sum of the chunks' durations
\* plus one silenceDuration for every chunk but the first; after one chunk it
\* is that chunk's duration, with no chunk 0; and the duration of the
\* 'generated' message is this value for all the chunks of the text.
C12_DurationIsSum ==
    LET n == Len(results) IN
    /\ n = 0 => durCat = <<0, 1>>
    /\ n = 1 => durCat = results[1].duration
    /\ n >= 1 => RatEq(durCat, RatAdd(SumDurations(results, n),
                                      RatMul(RatInt(n - 1), req.silenceDuration)))
    /\ (pc = "call_returned" \/ generated.sent) => n = Len(textList)
    /\ generated.sent => generated.duration = durCat

C12_Witness ==
    /\ generated.sent
    /\ Len(results) = 3
    /\ results[1].duration # results[2].duration
    /\ RatLT(RatAdd(SumDurations(results, 3), req.silenceDuration), generated.duration)

\* C13: after any number of chunks wavCat is the first chunk's waveform
\* followed, for each later chunk in the order of textList, by exactly
\* floor(silenceDuration * sampleRate) zero samples and that chunk's
\* waveform; nothing precedes the first waveform or follows the last.
C13_WaveformConcatenation ==
    /\ wavCat.isNull <=> results = <<>>
    /\ wavCat.data = JoinedWav(results, Len(results), req.silenceDuration)
    /\ Len(results) <= Len(textList)

C13_Witness ==
    /\ pc = "call_returned"
    /\ Len(results) = 3
    /\ results[1].wav # results[2].wav
    /\ Len(wavCat.data) =
          Len(results[1].wav) + Len(results[2].wav) + Len(results[3].wav) + 2
    /\ 0 \notin Range(results[3].wav)

(***************************************************************************)
(* chunkText on its own.                                                   *)
(***************************************************************************)
\* the sentences of the paragraphs, in order
RECURSIVE SentencesOf(_, _)
SentencesOf(paras, p) ==
    IF p > Len(paras) THEN <<>>
    ELSE SplitSentences(Trim(paras[p])) \o SentencesOf(paras, p + 1)

\* sentences i..j with one space between
RECURSIVE JoinSentences(_, _, _)
JoinSentences(sents, i, j) ==
    IF i > j THEN <<>>
    ELSE IF i = j THEN sents[i]
    ELSE sents[i] \o <<" ">> \o JoinSentences(sents, i + 1, j)

\* the chunks from c on are the sentences from i on, each chunk some whole
\* consecutive sentences, within maxLen or one sentence that is over maxLen
RECURSIVE WholeSentences(_, _, _, _, _)
WholeSentences(chunks, c, sents, i, maxLen) ==
    IF c > Len(chunks) THEN i > Len(sents)
    ELSE \E j \in i..Len(sents) :
            /\ chunks[c] = JoinSentences(sents, i, j)
            /\ Len(chunks[c]) <= maxLen \/ (j = i /\ Len(sents[i]) > maxLen)
            /\ WholeSentences(chunks, c + 1, sents, j + 1, maxLen)

RECURSIVE ConcatAll(_)
ConcatAll(seqs) == IF seqs = <<>> THEN <<>> ELSE Head(seqs) \o ConcatAll(Tail(seqs))

\* C14: the chunks of chunkText(text, maxLen) are the sentences of the text
\* in order, each chunk being whole consecutive sentences joined by a space;
\* a chunk is at most maxLen long unless it is one sentence that alone is
\* longer than maxLen.
C14_ChunkLengthBound ==
    fnPc = "chunked" =>
        WholeSentences(textOut, 1, SentencesOf(Paragraphs(textIn), 1), 1, maxLenIn)

C14_Witness ==
    /\ fnPc = "chunked"
    /\ Len(textOut) = 2
    /\ Len(textOut[1]) <= maxLenIn
    /\ Len(textOut[2]) > maxLenIn

\* C15: the chunks of chunkText concatenated in order have, whitespace
\* ignored, exactly the characters of the input that are not whitespace, in
\* the input's order; and no chunk is empty or blank.
C15_NothingDropped ==
    fnPc = "chunked" =>
        /\ RemoveChars(ConcatAll(textOut), Whitespace) = RemoveChars(textIn, Whitespace)
        /\ \A c \in 1..Len(textOut) : Trim(textOut[c]) # <<>>

C15_Witness ==
    /\ fnPc = "chunked"
    /\ maxLenIn = 4
    /\ textOut = << <<"a", ".", " ", "a">> >>
    /\ "\n" \in Range(textIn)

(***************************************************************************)
(* Normalization and the stages of _infer.                                 *)
(***************************************************************************)
\* C16 as stated: the chunks are the chunks of the normalized text, and the
\* text _infer encodes for a chunk is that chunk as chunkText returned it.
C16_NormalizedBeforeChunked ==
    inferStatus = "running" =>
        /\ textList = ChunkText(Str(PreprocessText(req.text.chars)), DefaultMaxLen)
        /\ processedText = textList[chunkPos]

\* the est calls and answers of a run of the denoising loop
LoopStages(c, total) ==
    [k \in 1..(2 * total) |->
        IF k % 2 = 1 THEN CallEv("est", c, (k - 1) \div 2, total)
        ELSE RetEv("est", c, (k - 2) \div 2)]

\* the stages of chunk c of the log: what ran without await, the engine calls
\* and their answers
StagesOf(c) ==
    SelectSeq(log, LAMBDA e : e.chunk = c /\ e.ev \in {"sync", "call", "ret"})

IsPrefix(a, b) == Len(a) <= Len(b) /\ a = SubSeq(b, 1, Len(a))

\* C17 as stated: VocabIndexer, duration predictor, LatentSampler, text
\* encoder, denoising loop, vocoder.
C17_SamplerBeforeEncoder ==
    \A c \in 1..Len(textList) :
        IsPrefix(StagesOf(c),
                 <<SyncEv("index", c), CallEv("dp", c, 0, 0), RetEv("dp", c, 0),
                   SyncEv("sample", c), CallEv("enc", c, 0, 0), RetEv("enc", c, 0)>>
                 \o LoopStages(c, req.totalStep)
                 \o <<CallEv("voc", c, 0, 0), RetEv("voc", c, 0)>>)

\* C17 amended: for each chunk the stages run in the order VocabIndexer,
\* duration predictor, text encoder, LatentSampler, denoising loop (totalStep
\* estimator calls), vocoder, each once and each after the one before has
\* completed; all of them have run for every chunk when the request is answered
\* by 'generated'.
C17_EncoderBeforeSampler ==
    \A c \in 1..Len(textList) :
        LET all == <<SyncEv("index", c), CallEv("dp", c, 0, 0), RetEv("dp", c, 0),
                     CallEv("enc", c, 0, 0), RetEv("enc", c, 0), SyncEv("sample", c)>>
                   \o LoopStages(c, req.totalStep)
                   \o <<CallEv("voc", c, 0, 0), RetEv("voc", c, 0)>>
        IN  /\ IsPrefix(StagesOf(c), all)
            /\ generated.sent => StagesOf(c) = all

C17_Witness ==
    /\ generated.sent
    /\ req.totalStep = 2
    /\ Len(textList) = 2
    /\ Len(StagesOf(2)) = 12

(***************************************************************************)
(* The worker's messages.                                                  *)
(***************************************************************************)
\* C18: every engine call of the request that is given style tensors is
\* given those of the style that was current when the request was handled
\* (the argument of call), whatever currentStyle is by then, and every
\* estimator call carries the totalStep of the request.
C18_StyleFixed ==
    \A r \in inflight :
        /\ r.op # "voc" => (atStart.handled /\ style.loaded /\ r.style = style.id)
        /\ r.op = "est" => r.total = req.totalStep

C18_Witness ==
    \E r \in inflight :
        /\ r.op = "est"
        /\ r.chunk = 2
        /\ currentStyle.loaded
        /\ currentStyle.id # style.id
        /\ r.style = style.id

\* C19: a 'generate' message handled when no 'init' had completed
\* successfully or no 'loadStyle' had completed successfully is answered by
\* 'error' with the not-initialized message, and no engine call is made for
\* it, no _infer is entered and no 'generated' is posted.
C19_NotReadyRejected ==
    (atStart.handled /\ ~(atStart.initDone /\ atStart.styleDone)) =>
        /\ pc = "done"
        /\ log = <<PostEv("error", NotReadyMsg)>>
        /\ inflight = {}
        /\ inferStatus = "none"
        /\ ~generated.sent

C19_Witness ==
    /\ atStart.handled
    /\ atStart.initDone
    /\ ~atStart.styleDone
    /\ loads[1] = "failed"
    /\ loads[2] = "returned"
    /\ log = <<PostEv("error", NotReadyMsg)>>

(***************************************************************************)
(* preprocessText on its own.                                              *)
(***************************************************************************)
\* C20 as stated: preprocessText(preprocessText(x)) = preprocessText(x).
C20_Idempotent ==
    fnPc = "renormalized" => textOut = PreprocessText(textIn)

(***************************************************************************)
(* C21: every result of preprocessText ends with a mark of                 *)
(* ENDING_PUNCTUATION_PATTERN; it is the text of the earlier steps when    *)
(* that text already ends with such a mark and that text followed by a     *)
(* period otherwise, so a text the earlier steps leave empty gives ".".    *)
(***************************************************************************)
C21_EndsWithTerminalPunctuation ==
    /\ fnPc \in {"normalized", "renormalized"} =>
          /\ textOut # <<>>
          /\ textOut[Len(textOut)] \in EndingPunctuation
    /\ fnPc = "normalized" =>
          LET body == BeforeEnding(textIn) IN
          /\ body = <<>> => textOut = <<".">>
          /\ (body # <<>> /\ body[Len(body)] \in EndingPunctuation) => textOut = body
          /\ (body # <<>> /\ body[Len(body)] \notin EndingPunctuation) =>
                textOut = body \o <<".">>

\* a text of whitespace gives ".", and one ending in an apostrophe is kept
C21_Witness ==
    /\ fnPc = "normalized"
    /\ \/ textIn = <<" ", " ">> /\ textOut = <<".">>
       \/ textIn = <<"a", "'">> /\ textOut = <<"a", "'">>

(***************************************************************************)
(* C22: UnicodeProcessor.call gives one row of ids for each string of the  *)
(* batch; with L the number of Unicode code points of the normalized       *)
(* string, position k <= L of the row holds the indexer entry of the k-th  *)
(* code point (-1 when the code point is outside the table), the positions *)
(* after L up to the longest L of the batch hold the pad id 0, and the     *)
(* mask row is L ones followed by zeros; a batch of one string has one row *)
(* of exactly L ids.                                                       *)
(***************************************************************************)
\* the id the table gives a code point
ExpectedId(indexer, cp) ==
    IF cp >= indexer.length \/ cp \notin DOMAIN indexer.supported
    THEN -1
    ELSE indexer.supported[cp]

C22_OneIdPerCodePoint ==
    fnPc = "indexed" =>
        LET batch      == fnArgs.textList
            normalized == [b \in DOMAIN batch |-> PreprocessText(batch[b])]
            L          == [b \in DOMAIN batch |-> Len(normalized[b])]
            maxL       == MaxOf(L)
        IN  /\ DOMAIN fnResult.textIds = DOMAIN batch
            /\ DOMAIN fnResult.textMask = DOMAIN batch
            /\ \A b \in DOMAIN batch :
                  /\ Len(fnResult.textIds[b]) = maxL
                  /\ \A k \in 1..maxL :
                        fnResult.textIds[b][k] =
                            IF k <= L[b]
                            THEN ExpectedId(fnArgs.indexer, CodePointOf(normalized[b][k]))
                            ELSE 0
                  /\ fnResult.textMask[b] =
                        << [k \in 1..maxL |-> IF k <= L[b] THEN 1 ELSE 0] >>

(***************************************************************************)
(* C23: sampleNoisyLatent returns xt of shape                              *)
(* batch x (latentDim * chunkCompress) x ceil(wavLenMax / chunkSize), with *)
(* chunkSize = baseChunkSize * chunkCompress; the elements of item b at    *)
(* positions beyond its own length ceil(floor(duration_b * sampleRate) /   *)
(* chunkSize) are 0, and the mask of item b is 1 on exactly the positions  *)
(* up to that length.                                                      *)
(***************************************************************************)
\* the least n with n * q >= p, for p >= 0 and q > 0
CeilDiv(p, q) == CHOOSE n \in 0..p : n * q >= p /\ (n = 0 \/ (n - 1) * q < p)

C23_PaddingIsZero ==
    fnPc = "sampled" =>
        LET c         == fnArgs.cfgs
            bsz       == Len(fnArgs.duration)
            chunkSize == c.baseChunkSize * c.chunkCompress
            wavLen    == [b \in 1..bsz |->
                             RatFloor(RatMul(fnArgs.duration[b], RatInt(c.sampleRate)))]
            valid     == [b \in 1..bsz |-> CeilDiv(wavLen[b], chunkSize)]
            latentLen == CeilDiv(MaxOf(wavLen), chunkSize)
        IN  /\ Len(fnResult.xt) = bsz
            /\ Len(fnResult.latentMask) = bsz
            /\ \A b \in 1..bsz :
                  /\ Len(fnResult.xt[b]) = c.latentDim * c.chunkCompress
                  /\ \A d \in 1..(c.latentDim * c.chunkCompress) :
                        /\ Len(fnResult.xt[b][d]) = latentLen
                        /\ \A t \in 1..latentLen :
                              t > valid[b] => fnResult.xt[b][d][t] = 0
                  /\ fnResult.latentMask[b] =
                        << [t \in 1..latentLen |-> IF t <= valid[b] THEN 1 ELSE 0] >>

\* a batch of two whose second item is shorter: its padding is 0 while the
\* same positions of the first item hold noise
C23_Witness ==
    /\ fnPc = "sampled"
    /\ Len(fnArgs.duration) = 2
    /\ \E t \in DOMAIN fnResult.xt[1][1] :
          /\ fnResult.latentMask[1][1][t] = 1
          /\ fnResult.xt[1][1][t] # 0
          /\ fnResult.latentMask[2][1][t] = 0
          /\ fnResult.xt[2][1][t] = 0

(***************************************************************************)
(* C24: decoding the header writeWavFile wrote for n samples at rate r     *)
(* gives 1 channel, 16 bits per sample, sample rate r, byte rate 2r, block *)
(* alignment 2 and data size 2n, with RIFF size 36 + 2n and 44 + 2n bytes  *)
(* in all; a sample of 1.0 or more is stored as 32767 and one of -1.0 or   *)
(* less as -32767.                                                         *)
(***************************************************************************)
\* a reader's view of the file: little-endian fields at byte offsets
ReadUint16(bytes, offset) == bytes[offset + 1] + 256 * bytes[offset + 2]
ReadUint32(bytes, offset) ==
    bytes[offset + 1] + 256 * bytes[offset + 2] + 65536 * bytes[offset + 3]
        + 16777216 * bytes[offset + 4]
ReadInt16(bytes, offset) ==
    LET u == ReadUint16(bytes, offset) IN IF u >= 32768 THEN u - 65536 ELSE u

C24_WavRoundTrip ==
    fnPc = "encoded" =>
        LET n == Len(fnArgs.audioData)
            r == fnArgs.sampleRate
        IN  /\ Len(fnResult) = 44 + 2 * n
            /\ ReadUint32(fnResult, 4) = 36 + 2 * n
            /\ ReadUint16(fnResult, 22) = 1
            /\ ReadUint32(fnResult, 24) = r
            /\ ReadUint32(fnResult, 28) = 2 * r
            /\ ReadUint16(fnResult, 32) = 2
            /\ ReadUint16(fnResult, 34) = 16
            /\ ReadUint32(fnResult, 40) = 2 * n
            /\ \A i \in 1..n :
                  /\ RatLE(<<1, 1>>, fnArgs.audioData[i]) =>
                        ReadInt16(fnResult, 44 + 2 * (i - 1)) = 32767
                  /\ RatLE(fnArgs.audioData[i], <<-1, 1>>) =>
                        ReadInt16(fnResult, 44 + 2 * (i - 1)) = -32767

\* 1.5 and -2.0 at 44100 Hz are stored as 32767 and -32767
C24_Witness ==
    /\ fnPc = "encoded"
    /\ fnArgs.sampleRate = 44100
    /\ fnArgs.audioData = << <<3, 2>>, <<-2, 1>> >>
    /\ ReadInt16(fnResult, 44) = 32767
    /\ ReadInt16(fnResult, 46) = -32767

(***************************************************************************)
(* C25: every sample writeWavFile stores is the input clamped to [-1, 1],  *)
(* multiplied by 32767 and rounded toward zero, whatever its sign.         *)
(***************************************************************************)
\* the integer part of a rational
TruncateTowardZero(p) == IF p[1] >= 0 THEN p[1] \div p[2] ELSE -((-p[1]) \div p[2])

C25_TruncatedTowardZero ==
    fnPc = "encoded" =>
        \A i \in DOMAIN fnArgs.audioData :
            ReadInt16(fnResult, 44 + 2 * (i - 1)) =
                TruncateTowardZero(RatMul(Clamp(fnArgs.audioData[i]), RatInt(32767)))

\* the terminal responses a call of self.onmessage may end with
AnswersTo(type) ==
    CASE type = "init"      -> {"initialized", "error"}
      [] type = "loadStyle" -> {"styleLoaded", "error"}
      [] type = "generate"  -> {"generated", "error"}
      [] OTHER              -> {"error"}

TerminalOf(id) == SelectSeq(posted[id], LAMBDA t : t \in TerminalTypes)

\* C26: of the messages the worker has posted with the id of a request it
\* received, at most one is a terminal response, it is the last of them (the
\* 'progress' messages precede it) and it is of a type that answers the
\* request; the call that handles the request ends with exactly one
\* terminal response posted, whatever the type of the request.
C26_OneTerminalResponse ==
    /\ DOMAIN posted = DOMAIN handlers
    /\ \A id \in DOMAIN handlers :
          /\ Len(TerminalOf(id)) <= 1
          /\ (handlers[id].pc = "done") <=> (Len(TerminalOf(id)) = 1)
          /\ \A i \in 1..Len(posted[id]) :
                IF i = Len(posted[id]) /\ handlers[id].pc = "done"
                THEN posted[id][i] \in AnswersTo(handlers[id].type)
                ELSE posted[id][i] = "progress"

C26_Witness ==
    \E g, i \in DOMAIN handlers :
        /\ handlers[g].type = "generate"
        /\ posted[g] = <<"progress", "generated">>
        /\ handlers[i].type = "init"
        /\ posted[i] = <<"progress", "progress", "progress", "progress", "initialized">>

\* the 'generate' requests whose response has not arrived at the page
OutstandingGenerates == {id \in DOMAIN workerCallbacks : workerCallbacks[id] = "generate"}

\* C27: while a 'generate' request is outstanding (posted by generateSpeech,
\* its response not yet arrived) the generate button is disabled, and at most
\* one 'generate' request is outstanding.
C27_ButtonDisabledWhileGenerating ==
    /\ OutstandingGenerates # {} => generateBtnDisabled
    /\ Cardinality(OutstandingGenerates) <= 1

\* the 'loadStyle' requests whose response has not arrived at the page
OutstandingLoads ==
    {id \in DOMAIN workerCallbacks : workerCallbacks[id] \in {"change", "change_restore"}}

\* every 'loadStyle' request the page has sent was answered by 'styleLoaded'
LoadsSucceeded ==
    /\ OutstandingLoads = {}
    /\ \A id \in DOMAIN handlers :
          handlers[id].type = "loadStyle" => posted[id] = <<"styleLoaded">>

\* the file the worker's currentStyle was loaded from
WorkerStylePath == handlers[currentStyle.id].stylePath

\* C28: when every 'loadStyle' request of the page has been answered by
\* 'styleLoaded' and none is outstanding, the worker's currentStyle is the
\* one loaded from the page's currentStylePath.
C28_WorkerHoldsSelectedStyle ==
    LoadsSucceeded => (currentStyle.loaded /\ WorkerStylePath = currentStylePath)

\* the call handling 'loadStyle' message id ends in this step with 'error'
LoadStyleFailsNow(id) ==
    /\ handlers[id].type = "loadStyle"
    /\ handlers[id].pc # "done"
    /\ handlers'[id].pc = "done"
    /\ posted'[id] # <<"styleLoaded">>

\* the 'loadStyle' requests answered by 'error'
FailedLoads ==
    {id \in DOMAIN handlers : handlers[id].type = "loadStyle" /\ posted[id] = <<"error">>}

\* C29: the step in which a 'loadStyle' request fails leaves currentStyle,
\* textToSpeech and cfgs as they were and posts 'error' as the request's only
\* message; a failed request's style is never the worker's currentStyle nor
\* the style a 'generate' call synthesizes with.
C29_FailedLoadKeepsStyle ==
    /\ [][\A id \in DOMAIN handlers :
            LoadStyleFailsNow(id) =>
                /\ currentStyle' = currentStyle
                /\ textToSpeech' = textToSpeech
                /\ cfgs' = cfgs
                /\ posted'[id] = <<"error">>]_vars
    /\ [](\A id \in FailedLoads :
            /\ currentStyle.id # id
            /\ \A g \in DOMAIN handlers : handlers[g].style.id # id)

C29_Witness ==
    \E l, g \in DOMAIN handlers :
        /\ l \in FailedLoads
        /\ l < g
        /\ handlers[g].type = "generate"
        /\ handlers[g].pc = "call"
        /\ handlers[g].style = LoadedStyle(1, 2)
        /\ currentStyle = LoadedStyle(1, 2)

\* the page receives a message in this step
Receives(type) ==
    /\ toMain # <<>>
    /\ Head(toMain).type = type
    /\ Len(toMain') < Len(toMain)

\* C30: the step in which the response to a 'generate' request arrives,
\* 'generated' or 'error', leaves the generate button enabled and the
\* progress bar hidden, and when no request is outstanding the button is
\* enabled and the bar hidden; a request's promise is settled at most once,
\* it is settled exactly when its entry has left workerCallbacks, and the
\* arrival of a 'progress' message settles nothing and removes no entry.
C30_RunsEndEnabled ==
    /\ [](/\ DOMAIN workerCallbacks \subseteq DOMAIN settled
          /\ \A id \in DOMAIN settled :
                /\ settled[id] <= 1
                /\ (settled[id] = 1) <=> (id \notin DOMAIN workerCallbacks)
          /\ workerCallbacks = <<>> => (~generateBtnDisabled /\ progressHidden))
    /\ [][/\ (OutstandingGenerates \ DOMAIN workerCallbacks') # {} =>
                /\ ~generateBtnDisabled'
                /\ progressHidden'
                /\ \E type \in {"generated", "error"} : Receives(type)
          /\ Receives("progress") =>
                /\ workerCallbacks' = workerCallbacks
                /\ settled' = settled]_vars

C30_Witness ==
    \E g, e \in DOMAIN handlers :
        /\ posted[g] = <<"progress", "generated">>
        /\ posted[e] = <<"progress", "error">>
        /\ handlers[e].type = "generate"
        /\ settled[g] = 1
        /\ settled[e] = 1
        /\ workerCallbacks = <<>>
        /\ ~generateBtnDisabled
        /\ progressHidden

====
